---- MODULE Spec2Model ----
(***************************************************************************)
(* A model of gosoline's logger (package mon): the level filter, the       *)
(* chaining operations WithChannel / WithContext / WithFields, the field   *)
(* sanitizer prepareForLog / mergeMapStringInterface, the hook pipeline,   *)
(* the formatter call and the mutex-guarded write to the output sink.      *)
(*                                                                         *)
(* Go maps, slices and pointers are references: they live in `heap`, a     *)
(* sequence of objects addressed by their index, and a Go value that is a  *)
(* map, a slice or a pointer holds the address (0 is the nil reference).   *)
(***************************************************************************)
EXTENDS Integers, Sequences, FiniteSets, TLC

VARIABLES
    heap,       \* the Go heap: a sequence of map / slice / pointee objects
    loggers,    \* the logger structs; a *logger is an index into this sequence
    made,       \* per logger: how it was derived, and what it looked like then
    callerObjs, \* the heap addresses the callers (and resolvers) own
    nMut,       \* how many times a caller has mutated its own data
    lastRet,    \* the *logger the last chaining call returned (0: none yet)
    procs,      \* the goroutines that call the logger
    menu,       \* the scenario: [depths, faults, hookFaults]
    pc,         \* per goroutine: where it is in its log call
    call,       \* per goroutine: the log call it makes
    lockHolder, \* per mutex: the goroutine that holds it (0: free)
    sink,       \* the output writer: the chunks written to it, in order
    stderr,     \* os.Stderr: the reports printed to it, in order
    spanErrs,   \* the errors recorded on tracing spans
    exited,     \* the exit status of the process (0: still running)
    recovered,  \* per goroutine: the panic value its recovery boundary caught
    sPc,        \* sanitizer scenario: which call comes next
    sIn1,       \* sanitizer scenario: first argument (a Go value)
    sIn2,       \* sanitizer scenario: second argument (a Go value)
    sOut,       \* sanitizer scenario: result of the first call
    sOut2       \* sanitizer scenario: result of the second call

sanVars == <<sPc, sIn1, sIn2, sOut, sOut2>>
chainVars == <<loggers, made, callerObjs, nMut, lastRet>>
logVars == <<procs, menu, pc, call, lockHolder, sink, stderr, spanErrs, exited, recovered>>
vars == <<heap, chainVars, sanVars, logVars>>

----------------------------------------------------------------------------
(* Bounds of the model *)

\* longest slice / array among the inputs
MaxLen == 2
\* deepest nesting among the inputs
MaxDepth == 2
\* most loggers derived from the root
MaxDerived == 2
\* most mutations a caller makes to its own field maps
MaxMut == 1
\* most hooks registered on the root logger
MaxHooks == 2
\* the number of Write steps a formatted line takes
BufLen == 2
\* the goroutines that log concurrently
NumProcs == 2
\* the frames below a log call on a shallow stack
ShallowStack == 2
\* the deepest call site of the stack trace scenario, and the largest depthSkip
MaxStack == 50
MaxSkip == 1
\* the number of calls a goroutine makes one after the other
MaxCalls == 2
\* the latest unix time of the clock of the filter scenario
MaxNow == 2

----------------------------------------------------------------------------
(* Go values.  A value is a record tagged by k:                            *)
(*   nil                     the untyped nil interface                     *)
(*   prim   s                a string / number / bool, printed as s        *)
(*   err    s                an error whose Error() is s                   *)
(*   map    a                map[string]interface{} at address a (0: nil)  *)
(*   tmap   a                a map of another type, int keys (0: nil)      *)
(*   ptr    a                a pointer to the cell at address a (0: nil)   *)
(*   slice  a                a slice over the array at address a (0: nil)  *)
(*   array  e                an array value with elements e                *)
(*   struct f                a struct value, f: name -> [exp, v]           *)

VNil == [k |-> "nil"]
VPrim(s) == [k |-> "prim", s |-> s]
VErr(s) == [k |-> "err", s |-> s]
VMap(a) == [k |-> "map", a |-> a]
VTMap(a) == [k |-> "tmap", a |-> a]
VPtr(a) == [k |-> "ptr", a |-> a]
VSlice(a) == [k |-> "slice", a |-> a]
VArray(e) == [k |-> "array", e |-> e]
VStruct(f) == [k |-> "struct", f |-> f]

\* heap objects
OMap(m) == [k |-> "map", m |-> m]
OCell(v) == [k |-> "cell", v |-> v]
OArr(e) == [k |-> "arr", e |-> e]

EmptyFn == <<>>

\* allocation: the new object gets the next address
Alloc(h, obj) == Append(h, obj)

\* fmt.Sprint of a map key of a typed map (an int): its decimal digits
Sprint(key) == CASE key = 1 -> "1" [] key = 2 -> "2" [] key = 3 -> "3" [] OTHER -> "n"

----------------------------------------------------------------------------
(* The field sanitizer.  Every operator takes the heap and returns the     *)
(* result value together with the heap after its allocations.              *)

RECURSIVE prepareForLog(_, _)
RECURSIVE rangeInto(_, _, _, _)
RECURSIVE rangeTyped(_, _, _, _)
RECURSIVE rangeFields(_, _, _, _)
RECURSIVE rangeIndex(_, _, _, _)

\* newMap[key] = r, for the map at address a and a sanitizer result r
Store(r, a, key) == [r.h EXCEPT ![a] = OMap((key :> r.v) @@ r.h[a].m)]
\* newArray[i] = r, for the array at address a and a sanitizer result r
StoreAt(r, a, i) == [r.h EXCEPT ![a] = OArr([r.h[a].e EXCEPT ![i] = r.v])]

\* for k, v := range src { newMap[k] = prepareForLog(v) }
rangeInto(src, keys, a, h) ==
    IF keys = {} THEN h
    ELSE LET key == CHOOSE x \in keys : TRUE
         IN rangeInto(src, keys \ {key}, a, Store(prepareForLog(src[key], h), a, key))

\* for iter.Next() { newMap[fmt.Sprint(key)] = prepareForLog(elem) }
rangeTyped(src, keys, a, h) ==
    IF keys = {} THEN h
    ELSE LET key == CHOOSE x \in keys : TRUE
         IN rangeTyped(src, keys \ {key}, a,
                       Store(prepareForLog(src[key], h), a, Sprint(key)))

\* for i := 0; i < rv.NumField(); i++ { if !CanInterface continue; newMap[name] = ... }
rangeFields(f, names, a, h) ==
    IF names = {} THEN h
    ELSE LET n == CHOOSE x \in names : TRUE
         IN rangeFields(f, names \ {n}, a,
                        IF ~f[n].exp THEN h ELSE Store(prepareForLog(f[n].v, h), a, n))

\* for i := range newArray { newArray[i] = prepareForLog(rv.Index(i)) }
rangeIndex(e, i, a, h) ==
    IF i > Len(e) THEN h
    ELSE rangeIndex(e, i + 1, a, StoreAt(prepareForLog(e[i], h), a, i))

\* for k, v := range m { newMap[k] = prepareForLog(v) }, nothing for a nil map
rangeMap(m, a, h) ==
    IF m.a = 0 THEN h ELSE rangeInto(h[m.a].m, DOMAIN h[m.a].m, a, h)

\* mutant: the receiver's entries are copied last, so they win over the input's
mergeReceiverLast(receiver, input, h) ==
    [v |-> VMap(Len(h) + 1),
     h |-> rangeMap(receiver, Len(h) + 1,
                    rangeMap(input, Len(h) + 1, Alloc(h, OMap(EmptyFn))))]

mergeMapStringInterface(receiver, input, h) ==
    [v |-> VMap(Len(h) + 1),
     h |-> rangeMap(input, Len(h) + 1,
                    rangeMap(receiver, Len(h) + 1, Alloc(h, OMap(EmptyFn))))]

\* mutant: the pointee is returned as it is, not sanitized
prepareForLogRawPointee(v, h) ==
    CASE v.k = "err" -> [v |-> VPrim(v.s), h |-> h]
      [] v.k = "map" -> mergeMapStringInterface(v, VMap(0), h)
      [] v.k = "tmap" ->
            [v |-> VMap(Len(h) + 1),
             h |-> IF v.a = 0 THEN Alloc(h, OMap(EmptyFn))
                   ELSE rangeTyped(h[v.a].m, DOMAIN h[v.a].m, Len(h) + 1,
                                   Alloc(h, OMap(EmptyFn)))]
      [] v.k = "ptr" ->
            IF v.a = 0 THEN [v |-> VNil, h |-> h]
            ELSE [v |-> h[v.a].v, h |-> h]
      [] v.k = "struct" ->
            [v |-> VMap(Len(h) + 1),
             h |-> rangeFields(v.f, DOMAIN v.f, Len(h) + 1, Alloc(h, OMap(EmptyFn)))]
      [] v.k = "slice" ->
            IF v.a = 0 THEN [v |-> VNil, h |-> h]
            ELSE [v |-> VSlice(Len(h) + 1),
                  h |-> rangeIndex(h[v.a].e, 1, Len(h) + 1,
                                   Alloc(h, OArr([i \in 1..Len(h[v.a].e) |-> VNil])))]
      [] v.k = "array" ->
            [v |-> VSlice(Len(h) + 1),
             h |-> rangeIndex(v.e, 1, Len(h) + 1,
                              Alloc(h, OArr([i \in 1..Len(v.e) |-> VNil])))]
      [] OTHER -> [v |-> v, h |-> h]

\* mutant: a nested map is kept as it is, not copied
prepareForLogKeepMap(v, h) ==
    CASE v.k = "err" -> [v |-> VPrim(v.s), h |-> h]
      [] v.k = "map" -> [v |-> v, h |-> h]
      [] v.k = "tmap" ->
            [v |-> VMap(Len(h) + 1),
             h |-> IF v.a = 0 THEN Alloc(h, OMap(EmptyFn))
                   ELSE rangeTyped(h[v.a].m, DOMAIN h[v.a].m, Len(h) + 1,
                                   Alloc(h, OMap(EmptyFn)))]
      [] v.k = "ptr" ->
            IF v.a = 0 THEN [v |-> VNil, h |-> h]
            ELSE prepareForLog(h[v.a].v, h)
      [] v.k = "struct" ->
            [v |-> VMap(Len(h) + 1),
             h |-> rangeFields(v.f, DOMAIN v.f, Len(h) + 1, Alloc(h, OMap(EmptyFn)))]
      [] v.k = "slice" ->
            IF v.a = 0 THEN [v |-> VNil, h |-> h]
            ELSE [v |-> VSlice(Len(h) + 1),
                  h |-> rangeIndex(h[v.a].e, 1, Len(h) + 1,
                                   Alloc(h, OArr([i \in 1..Len(h[v.a].e) |-> VNil])))]
      [] v.k = "array" ->
            [v |-> VSlice(Len(h) + 1),
             h |-> rangeIndex(v.e, 1, Len(h) + 1,
                              Alloc(h, OArr([i \in 1..Len(v.e) |-> VNil])))]
      [] OTHER -> [v |-> v, h |-> h]

\* mutant: an empty slice is turned into nil, as a nil slice is
prepareForLogEmptyAsNil(v, h) ==
    CASE v.k = "err" -> [v |-> VPrim(v.s), h |-> h]
      [] v.k = "map" -> mergeMapStringInterface(v, VMap(0), h)
      [] v.k = "tmap" ->
            [v |-> VMap(Len(h) + 1),
             h |-> IF v.a = 0 THEN Alloc(h, OMap(EmptyFn))
                   ELSE rangeTyped(h[v.a].m, DOMAIN h[v.a].m, Len(h) + 1,
                                   Alloc(h, OMap(EmptyFn)))]
      [] v.k = "ptr" ->
            IF v.a = 0 THEN [v |-> VNil, h |-> h]
            ELSE prepareForLog(h[v.a].v, h)
      [] v.k = "struct" ->
            [v |-> VMap(Len(h) + 1),
             h |-> rangeFields(v.f, DOMAIN v.f, Len(h) + 1, Alloc(h, OMap(EmptyFn)))]
      [] v.k = "slice" ->
            IF v.a = 0 \/ Len(h[v.a].e) = 0 THEN [v |-> VNil, h |-> h]
            ELSE [v |-> VSlice(Len(h) + 1),
                  h |-> rangeIndex(h[v.a].e, 1, Len(h) + 1,
                                   Alloc(h, OArr([i \in 1..Len(h[v.a].e) |-> VNil])))]
      [] v.k = "array" ->
            [v |-> VSlice(Len(h) + 1),
             h |-> rangeIndex(v.e, 1, Len(h) + 1,
                              Alloc(h, OArr([i \in 1..Len(v.e) |-> VNil])))]
      [] OTHER -> [v |-> v, h |-> h]

prepareForLog(v, h) ==
    CASE v.k = "err" -> [v |-> VPrim(v.s), h |-> h]
      [] v.k = "map" -> mergeMapStringInterface(v, VMap(0), h)
      [] v.k = "tmap" ->
            [v |-> VMap(Len(h) + 1),
             h |-> IF v.a = 0 THEN Alloc(h, OMap(EmptyFn))
                   ELSE rangeTyped(h[v.a].m, DOMAIN h[v.a].m, Len(h) + 1,
                                   Alloc(h, OMap(EmptyFn)))]
      [] v.k = "ptr" ->
            IF v.a = 0 THEN [v |-> VNil, h |-> h]
            ELSE prepareForLog(h[v.a].v, h)
      [] v.k = "struct" ->
            [v |-> VMap(Len(h) + 1),
             h |-> rangeFields(v.f, DOMAIN v.f, Len(h) + 1, Alloc(h, OMap(EmptyFn)))]
      [] v.k = "slice" ->
            IF v.a = 0 THEN [v |-> VNil, h |-> h]
            ELSE [v |-> VSlice(Len(h) + 1),
                  h |-> rangeIndex(h[v.a].e, 1, Len(h) + 1,
                                   Alloc(h, OArr([i \in 1..Len(h[v.a].e) |-> VNil])))]
      [] v.k = "array" ->
            [v |-> VSlice(Len(h) + 1),
             h |-> rangeIndex(v.e, 1, Len(h) + 1,
                              Alloc(h, OArr([i \in 1..Len(v.e) |-> VNil])))]
      [] OTHER -> [v |-> v, h |-> h]

----------------------------------------------------------------------------
(* What a reader of a value sees: the value with every reference followed. *)

RECURSIVE Deep(_, _)
Deep(v, h) ==
    CASE v.k = "map" ->
            IF v.a = 0 THEN [k |-> "nilmap"]
            ELSE [k |-> "map", m |-> [key \in DOMAIN h[v.a].m |-> Deep(h[v.a].m[key], h)]]
      [] v.k = "tmap" ->
            IF v.a = 0 THEN [k |-> "niltmap"]
            ELSE [k |-> "tmap", m |-> [key \in DOMAIN h[v.a].m |-> Deep(h[v.a].m[key], h)]]
      [] v.k = "ptr" ->
            IF v.a = 0 THEN [k |-> "nilptr"]
            ELSE [k |-> "ptr", v |-> Deep(h[v.a].v, h)]
      [] v.k = "slice" ->
            IF v.a = 0 THEN [k |-> "nilslice"]
            ELSE [k |-> "slice", e |-> [i \in 1..Len(h[v.a].e) |-> Deep(h[v.a].e[i], h)]]
      [] v.k = "array" -> [k |-> "array", e |-> [i \in 1..Len(v.e) |-> Deep(v.e[i], h)]]
      [] v.k = "struct" ->
            [k |-> "struct",
             f |-> [n \in DOMAIN v.f |-> [exp |-> v.f[n].exp, v |-> Deep(v.f[n].v, h)]]]
      [] OTHER -> v

----------------------------------------------------------------------------
(* Inputs.  A caller's value is described as a tree (the shape Deep         *)
(* returns); Load builds it on the heap, one fresh object per node.        *)

Keys == {"a", "b"}
IntKeys == {1, 2}
FieldNames == {"Name", "secret"}
Exported(n) == n = "Name"

Leaves ==
    { VNil, VPrim("x"), VErr("boom"),
      [k |-> "nilmap"], [k |-> "nilslice"], [k |-> "nilptr"] }

\* every function from a subset of D to S
PartialFns(D, S) == UNION { [d -> S] : d \in SUBSET D }
\* every sequence over S of length at most n
SeqsUpTo(S, n) == UNION { [1..i -> S] : i \in 0..n }

\* the containers whose elements are drawn from S
Containers(S) ==
    { [k |-> "map", m |-> m] : m \in PartialFns(Keys, S) }
      \cup { [k |-> "tmap", m |-> m] : m \in PartialFns(IntKeys, S) }
      \cup { [k |-> "ptr", v |-> v] : v \in S }
      \cup { [k |-> "slice", e |-> e] : e \in SeqsUpTo(S, MaxLen) }
      \cup { [k |-> "array", e |-> e] : e \in SeqsUpTo(S, MaxLen) }
      \cup { [k |-> "struct",
              f |-> [n \in FieldNames |-> [exp |-> Exported(n), v |-> f[n]]]] :
             f \in [FieldNames -> S] }

\* the containers that hold exactly one element of S
Wraps(S) ==
    { [k |-> "map", m |-> ("a" :> v)] : v \in S }
      \cup { [k |-> "tmap", m |-> (1 :> v)] : v \in S }
      \cup { [k |-> "ptr", v |-> v] : v \in S }
      \cup { [k |-> "slice", e |-> <<v>>] : v \in S }
      \cup { [k |-> "array", e |-> <<v>>] : v \in S }
      \cup { [k |-> "struct",
              f |-> [n \in FieldNames |-> [exp |-> Exported(n), v |-> v]]] : v \in S }

RECURSIVE Trees(_)
Trees(d) ==
    IF d = 0 THEN Leaves
    ELSE IF d = 1 THEN Leaves \cup Containers(Leaves)
    ELSE Trees(d - 1) \cup Wraps(Trees(d - 1))

RECURSIVE Load(_, _)
RECURSIVE loadKeys(_, _, _, _)
RECURSIVE loadIndex(_, _, _, _)
RECURSIVE loadFields(_, _, _, _)

loadKeys(m, keys, a, h) ==
    IF keys = {} THEN h
    ELSE LET key == CHOOSE x \in keys : TRUE
         IN loadKeys(m, keys \ {key}, a, Store(Load(m[key], h), a, key))

loadIndex(e, i, a, h) ==
    IF i > Len(e) THEN h
    ELSE loadIndex(e, i + 1, a, StoreAt(Load(e[i], h), a, i))

\* the struct's fields loaded one by one: acc is [f, h]
AddField(acc, n, exp, r) == [f |-> (n :> [exp |-> exp, v |-> r.v]) @@ acc.f, h |-> r.h]
loadFields(f, names, acc, h) ==
    IF names = {} THEN acc
    ELSE LET n == CHOOSE x \in names : TRUE
         IN loadFields(f, names \ {n}, AddField(acc, n, f[n].exp, Load(f[n].v, acc.h)), h)

NewCell(r) == [v |-> VPtr(Len(r.h) + 1), h |-> Alloc(r.h, OCell(r.v))]
NewArray(h, a) == [v |-> VArray(h[a].e), h |-> h]
NewStruct(r) == [v |-> VStruct(r.f), h |-> r.h]

Load(t, h) ==
    CASE t.k = "nilmap" -> [v |-> VMap(0), h |-> h]
      [] t.k = "niltmap" -> [v |-> VTMap(0), h |-> h]
      [] t.k = "nilptr" -> [v |-> VPtr(0), h |-> h]
      [] t.k = "nilslice" -> [v |-> VSlice(0), h |-> h]
      [] t.k = "map" ->
            [v |-> VMap(Len(h) + 1),
             h |-> loadKeys(t.m, DOMAIN t.m, Len(h) + 1, Alloc(h, OMap(EmptyFn)))]
      [] t.k = "tmap" ->
            [v |-> VTMap(Len(h) + 1),
             h |-> loadKeys(t.m, DOMAIN t.m, Len(h) + 1, Alloc(h, OMap(EmptyFn)))]
      [] t.k = "ptr" -> NewCell(Load(t.v, h))
      [] t.k = "slice" ->
            [v |-> VSlice(Len(h) + 1),
             h |-> loadIndex(t.e, 1, Len(h) + 1,
                             Alloc(h, OArr([i \in 1..Len(t.e) |-> VNil])))]
      [] t.k = "array" ->
            NewArray(loadIndex(t.e, 1, Len(h) + 1,
                               Alloc(h, OArr([i \in 1..Len(t.e) |-> VNil]))),
                     Len(h) + 1)
      [] t.k = "struct" -> NewStruct(loadFields(t.f, DOMAIN t.f, [f |-> EmptyFn, h |-> h], h))
      [] OTHER -> [v |-> t, h |-> h]

----------------------------------------------------------------------------
(* The state of the log calls.                                             *)

AllProcs == 1..NumProcs
\* the mutexes: the root's, and room for one more per derived logger
LockIds == 1..(1 + MaxDerived)

NoErr == "nil"
NoBuf == [kind |-> "none", h |-> 0, n |-> 0]
NoMeta == [k |-> "none"]
\* the log call of a goroutine that has not called yet
NoCall ==
    [lg |-> 0, level |-> "", after |-> "", e |-> NoErr, depth |-> 0,
     accepted |-> FALSE, meta |-> NoMeta, hook |-> 0, fired |-> <<>>, failed |-> {},
     buf |-> NoBuf, widx |-> 0, ret |-> "", lineWrites |-> 0, errWrites |-> 0,
     out |-> "", pv |-> NoErr]
NoMenu == [depths |-> {}, faults |-> FALSE, hookFaults |-> FALSE]

\* nobody has logged yet; the goroutines ps will, in the scenario m
LogStart(ps, m) ==
    /\ procs = ps
    /\ menu = m
    /\ pc = [p \in AllProcs |-> "idle"]
    /\ call = [p \in AllProcs |-> NoCall]
    /\ lockHolder = [k \in LockIds |-> 0]
    /\ sink = <<>>
    /\ stderr = <<>>
    /\ spanErrs = {}
    /\ exited = 0
    /\ recovered = [p \in AllProcs |-> NoErr]

----------------------------------------------------------------------------
(* The sanitizer scenario: one value is sanitized and the result sanitized  *)
(* again, or two field maps are merged.                                    *)

\* the values stored under the keys of the maps that are merged
MergeVals == Leaves \cup Wraps({VErr("boom")})
MergeMaps == { [k |-> "nilmap"] } \cup { [k |-> "map", m |-> m] : m \in PartialFns(Keys, MergeVals) }

SanInit ==
    /\ loggers = <<>>
    /\ made = <<>>
    /\ callerObjs = {}
    /\ nMut = 0
    /\ lastRet = 0
    /\ sOut = VNil
    /\ sOut2 = VNil
    /\ LogStart({}, NoMenu)
    /\ \/ \E t \in Trees(MaxDepth) :
            LET r == Load(t, <<>>)
            IN /\ heap = r.h
               /\ sIn1 = r.v
               /\ sIn2 = VNil
               /\ sPc = "prepare"
       \/ \E t1 \in MergeMaps, t2 \in MergeMaps :
            LET r1 == Load(t1, <<>>)
                r2 == Load(t2, r1.h)
            IN /\ heap = r2.h
               /\ sIn1 = r1.v
               /\ sIn2 = r2.v
               /\ sPc = "merge"

\* out := prepareForLog(v)
SanPrepare ==
    /\ sPc = "prepare"
    /\ LET r == prepareForLog(sIn1, heap)
       IN /\ heap' = r.h
          /\ sOut' = r.v
    /\ sPc' = "again"
    /\ UNCHANGED <<chainVars, sIn1, sIn2, sOut2, logVars>>

\* out2 := prepareForLog(out)
SanAgain ==
    /\ sPc = "again"
    /\ LET r == prepareForLog(sOut, heap)
       IN /\ heap' = r.h
          /\ sOut2' = r.v
    /\ sPc' = "done"
    /\ UNCHANGED <<chainVars, sIn1, sIn2, sOut, logVars>>

\* out := mergeMapStringInterface(m1, m2)
SanMerge ==
    /\ sPc = "merge"
    /\ LET r == mergeMapStringInterface(sIn1, sIn2, heap)
       IN /\ heap' = r.h
          /\ sOut' = r.v
    /\ sPc' = "merged"
    /\ UNCHANGED <<chainVars, sIn1, sIn2, sOut2, logVars>>

SanNext == SanPrepare \/ SanAgain \/ SanMerge

SpecSan == SanInit /\ [][SanNext]_vars

\* the keys of a map value (none for the nil map)
KeysOf(v, h) == IF v.a = 0 THEN {} ELSE DOMAIN h[v.a].m
\* the sanitized form of v, as a reader sees it
DeepOf(r) == Deep(r.v, r.h)
Sanitized(v, h) == DeepOf(prepareForLog(v, h))

\* C7: the merged map has the keys of m1 and of m2; a key of m2 holds the
\* sanitized value of m2, a key of m1 alone the sanitized value of m1.
C7_MergeKeysAndValues ==
    sPc = "merged" =>
        /\ sOut.k = "map" /\ sOut.a # 0
        /\ KeysOf(sOut, heap) = KeysOf(sIn1, heap) \cup KeysOf(sIn2, heap)
        /\ \A key \in KeysOf(sIn2, heap) :
              Deep(heap[sOut.a].m[key], heap) = Sanitized(heap[sIn2.a].m[key], heap)
        /\ \A key \in KeysOf(sIn1, heap) \ KeysOf(sIn2, heap) :
              Deep(heap[sOut.a].m[key], heap) = Sanitized(heap[sIn1.a].m[key], heap)

\* a merge of two maps that share a key under which they hold different values
C7_Witness ==
    /\ sPc = "merged"
    /\ \E key \in KeysOf(sIn1, heap) \cap KeysOf(sIn2, heap) :
          Sanitized(heap[sIn1.a].m[key], heap) # Sanitized(heap[sIn2.a].m[key], heap)
    /\ KeysOf(sIn1, heap) \ KeysOf(sIn2, heap) # {}

\* C8: sanitizing a sanitized value changes nothing.
C8_Idempotent ==
    sPc = "done" => Deep(sOut2, heap) = Deep(sOut, heap)

\* a nested input that the sanitizer rewrites, sanitized twice
C8_Witness ==
    /\ sPc = "done"
    /\ sIn1.k = "struct"
    /\ Deep(sOut, heap) # Deep(sIn1, heap)
    /\ \E n \in DOMAIN sIn1.f : sIn1.f[n].v.k = "ptr" /\ sIn1.f[n].v.a # 0

----------------------------------------------------------------------------
(* The logger.                                                             *)

levels == [trace |-> 0, debug |-> 1, info |-> 2, warn |-> 3, error |-> 4,
           fatal |-> 5, panic |-> 6]

\* levels[level]: a Go map yields the zero value for a key it does not hold
levelPriority(level) == IF level \in DOMAIN levels THEN levels[level] ELSE 0

ChannelDefault == "default"
FormatConsole == "console"
NoContext == "nil"

\* the struct NewLoggerWithInterfaces builds; its three maps are allocated at
\* the addresses a+1, a+2, a+3 and its mutex is number lck
NewLoggerWithInterfaces(h, lck) ==
    [l |-> [clock |-> "clock",
            output |-> "out",
            outputLck |-> lck,
            ctxResolver |-> <<>>,
            hooks |-> <<>>,
            level |-> levelPriority("info"),
            format |-> FormatConsole,
            timestampFormat |-> "",
            data |-> [channel |-> ChannelDefault,
                      context |-> NoContext,
                      contextFields |-> VMap(Len(h) + 1),
                      fields |-> VMap(Len(h) + 2),
                      tags |-> VMap(Len(h) + 3)]],
     h |-> h \o <<OMap(EmptyFn), OMap(EmptyFn), OMap(EmptyFn)>>]

\* the root logger once the settings, the resolvers and the hooks are applied
newLogger(settings, resolvers, hooks, h) ==
    LET n == NewLoggerWithInterfaces(h, 1)
        t == Load(settings.tags, n.h)
    IN [l |-> [n.l EXCEPT !.level = levelPriority(settings.level),
                          !.format = settings.format,
                          !.timestampFormat = settings.timestampFormat,
                          !.ctxResolver = resolvers,
                          !.hooks = hooks,
                          !.data.tags = t.v],
        h |-> t.h]

\* mutant: the copy does not take over the hooks
copyWithoutHooks(l) ==
    [clock |-> l.clock,
     outputLck |-> l.outputLck,
     output |-> l.output,
     ctxResolver |-> l.ctxResolver,
     hooks |-> <<>>,
     level |-> l.level,
     format |-> l.format,
     timestampFormat |-> l.timestampFormat,
     data |-> l.data]

\* mutant: the copy gets a mutex of its own
copyOwnMutex(l) ==
    [clock |-> l.clock,
     outputLck |-> l.outputLck + 1,
     output |-> l.output,
     ctxResolver |-> l.ctxResolver,
     hooks |-> l.hooks,
     level |-> l.level,
     format |-> l.format,
     timestampFormat |-> l.timestampFormat,
     data |-> l.data]

copy(l) ==
    [clock |-> l.clock,
     outputLck |-> l.outputLck,
     output |-> l.output,
     ctxResolver |-> l.ctxResolver,
     hooks |-> l.hooks,
     level |-> l.level,
     format |-> l.format,
     timestampFormat |-> l.timestampFormat,
     data |-> l.data]

\* what resolver r returns for the context ctx: a map it builds on the call
ResolverOut(r, ctx) ==
    CASE r = "r1" -> [k |-> "map", m |-> ("a" :> VPrim(ctx))]
      [] r = "r2" -> [k |-> "map", m |-> ("a" :> VErr("boom") @@
                                            "b" :> [k |-> "slice", e |-> <<VPrim(ctx)>>])]
      [] r = "r3" -> IF ctx = "ctx1" THEN [k |-> "map", m |-> ("c" :> VPrim(ctx))]
                     ELSE [k |-> "nilmap"]
      [] OTHER -> [k |-> "nilmap"]

\* the operators below take the table of loggers ls and the receiver's index i,
\* and return the table, the index of the returned logger and the heap

WithChannel(ls, i, channel) ==
    LET cpy == copy(ls[i])
    IN [ls |-> Append(ls, [cpy EXCEPT !.data.channel = channel]),
        ret |-> Len(ls) + 1]

\* cf = merge(cf, newContextFields), for the state s = [cf, h, objs] of the loop
mergeResolved(s, newContextFields) ==
    [r |-> mergeMapStringInterface(s.cf, newContextFields.v, newContextFields.h),
     objs |-> s.objs \cup ((Len(s.h) + 1)..Len(newContextFields.h))]
Resolved(x) == [cf |-> x.r.v, h |-> x.r.h, objs |-> x.objs]

\* mutant: the resolvers are applied last registered first
rangeResolversLastFirst(rs, ctx, cf0, h0) ==
    LET step[n \in 0..Len(rs)] ==
            IF n = 0 THEN [cf |-> cf0, h |-> h0, objs |-> {}]
            ELSE Resolved(mergeResolved(step[n - 1],
                                        Load(ResolverOut(rs[Len(rs) - n + 1], ctx),
                                             step[n - 1].h)))
    IN step[Len(rs)]

\* for _, r := range l.ctxResolver { cf = merge(cf, r(ctx)) }
rangeResolvers(rs, ctx, cf0, h0) ==
    LET step[n \in 0..Len(rs)] ==
            IF n = 0 THEN [cf |-> cf0, h |-> h0, objs |-> {}]
            ELSE Resolved(mergeResolved(step[n - 1],
                                        Load(ResolverOut(rs[n], ctx), step[n - 1].h)))
    IN step[Len(rs)]

Derived(ls, l) == Append(ls, l)
withContextFields(ls, cpy, f) ==
    [ls |-> Derived(ls, [cpy EXCEPT !.data.contextFields = f.cf]),
     ret |-> Len(ls) + 1, h |-> f.h, objs |-> f.objs]

withContextCopy(ls, cpy, rs, ctx, h) ==
    withContextFields(ls, cpy, rangeResolvers(rs, ctx, cpy.data.contextFields, h))

WithContext(ls, i, ctx, h) ==
    IF ctx = NoContext THEN [ls |-> ls, ret |-> i, h |-> h, objs |-> {}]
    ELSE withContextCopy(ls, [copy(ls[i]) EXCEPT !.data.context = ctx],
                         ls[i].ctxResolver, ctx, h)

\* mutant: the logger WithFields returns is on the default channel
withMergedFieldsDefaultChannel(ls, cpy, r) ==
    [ls |-> Derived(ls, [cpy EXCEPT !.data.fields = r.v, !.data.channel = ChannelDefault]),
     ret |-> Len(ls) + 1, h |-> r.h]

withMergedFields(ls, cpy, r) ==
    [ls |-> Derived(ls, [cpy EXCEPT !.data.fields = r.v]), ret |-> Len(ls) + 1, h |-> r.h]

WithFields(ls, i, fields, h) ==
    withMergedFields(ls, copy(ls[i]), mergeMapStringInterface(ls[i].data.fields, fields, h))

\* a logger as a reader sees it: its maps with every reference followed
View(l, h) ==
    [l EXCEPT !.data = [channel |-> l.data.channel,
                        context |-> l.data.context,
                        contextFields |-> Deep(l.data.contextFields, h),
                        fields |-> Deep(l.data.fields, h),
                        tags |-> Deep(l.data.tags, h)]]

----------------------------------------------------------------------------
(* The chaining scenario: callers derive loggers from the root and keep    *)
(* changing the field maps they passed in.                                 *)

Channels == {"orders"}
Contexts == {NoContext, "ctx1"}
ResolverLists == {<<>>, <<"r1", "r2">>}
NestedMap == [k |-> "map", m |-> ("b" :> VPrim("x"))]
FieldInputs ==
    { [k |-> "nilmap"],
      [k |-> "map", m |-> ("a" :> VErr("boom") @@ "b" :> VPrim("x"))],
      [k |-> "map", m |-> ("a" :> [k |-> "map",
                                   m |-> ("b" :> [k |-> "slice", e |-> <<NestedMap>>])])],
      [k |-> "map", m |-> ("a" :> [k |-> "ptr", v |-> NestedMap] @@
                           "b" :> [k |-> "struct",
            f |-> [n \in FieldNames |->
                    [exp |-> Exported(n), v |-> [k |-> "slice", e |-> <<VPrim("x")>>]]]])] }

DefaultSettings ==
    [level |-> "info", format |-> FormatConsole, timestampFormat |-> "15:04:05.000",
     tags |-> [k |-> "map", m |-> ("env" :> VPrim("x"))]]

ChainInit ==
    /\ \E rs \in ResolverLists :
          LET n == newLogger(DefaultSettings, rs, <<"h1">>, <<>>)
          IN /\ heap = n.h
             /\ loggers = <<n.l>>
             /\ made = <<[via |-> "root", from |-> 0, arg |-> VNil, argSnap |-> VNil,
                          snap |-> View(n.l, n.h)]>>
    /\ callerObjs = {}
    /\ nMut = 0
    /\ lastRet = 0
    /\ sPc = "off"
    /\ sIn1 = VNil
    /\ sIn2 = VNil
    /\ sOut = VNil
    /\ sOut2 = VNil
    /\ LogStart({}, NoMenu)

CanDerive == Len(loggers) < 1 + MaxDerived

Entry(via, from, arg, ls, ret, h) ==
    [via |-> via, from |-> from, arg |-> arg, argSnap |-> Deep(arg, h),
     snap |-> View(ls[ret], h)]

\* the chaining call on logger i returned r = [ls, ret], leaving the heap h
ChainReturn(via, i, arg, r, h, objs) ==
    /\ loggers' = r.ls
    /\ lastRet' = r.ret
    /\ heap' = h
    /\ callerObjs' = callerObjs \cup objs
    /\ made' = IF r.ret <= Len(loggers) THEN made
               ELSE Append(made, Entry(via, i, arg, r.ls, r.ret, h))
    /\ UNCHANGED <<nMut, sanVars, logVars>>
ChainReturnHeap(via, i, arg, r, objs) == ChainReturn(via, i, arg, r, r.h, objs)
ChainReturnObjs(via, i, arg, r) == ChainReturn(via, i, arg, r, r.h, r.objs)

\* l2 := loggers[i].WithChannel(c)
ChainWithChannel(i, c) ==
    /\ CanDerive
    /\ ChainReturn("channel", i, VPrim(c), WithChannel(loggers, i, c), heap, {})

\* l2 := loggers[i].WithContext(ctx)
ChainWithContext(i, ctx) ==
    /\ CanDerive
    /\ ChainReturnObjs("context", i, VPrim(ctx), WithContext(loggers, i, ctx, heap))

\* l2 := loggers[i].WithFields(f), for the caller's map f
ChainWithLoaded(i, f) ==
    ChainReturnHeap("fields", i, f.v, WithFields(loggers, i, f.v, f.h),
                    (Len(heap) + 1)..Len(f.h))

\* f := <the map t>; l2 := loggers[i].WithFields(f)
ChainWithFields(i, t) ==
    /\ CanDerive
    /\ ChainWithLoaded(i, Load(t, heap))

Mutated == VPrim("changed")

\* f[key] = "changed", on a map the caller owns
ChainSetKey(a, key) ==
    /\ nMut < MaxMut
    /\ a \in callerObjs /\ heap[a].k = "map"
    /\ heap' = [heap EXCEPT ![a] = OMap((key :> Mutated) @@ heap[a].m)]
    /\ nMut' = nMut + 1
    /\ UNCHANGED <<loggers, made, callerObjs, lastRet, sanVars, logVars>>

\* s[n] = "changed", on a slice the caller owns
ChainSetIndex(a, n) ==
    /\ nMut < MaxMut
    /\ a \in callerObjs /\ heap[a].k = "arr" /\ n \in 1..Len(heap[a].e)
    /\ heap' = [heap EXCEPT ![a] = OArr([heap[a].e EXCEPT ![n] = Mutated])]
    /\ nMut' = nMut + 1
    /\ UNCHANGED <<loggers, made, callerObjs, lastRet, sanVars, logVars>>

\* *p = "changed", on a pointee the caller owns
ChainSetPointee(a) ==
    /\ nMut < MaxMut
    /\ a \in callerObjs /\ heap[a].k = "cell"
    /\ heap' = [heap EXCEPT ![a] = OCell(Mutated)]
    /\ nMut' = nMut + 1
    /\ UNCHANGED <<loggers, made, callerObjs, lastRet, sanVars, logVars>>

ChainNext ==
    \/ \E i \in 1..Len(loggers), c \in Channels : ChainWithChannel(i, c)
    \/ \E i \in 1..Len(loggers), ctx \in Contexts : ChainWithContext(i, ctx)
    \/ \E i \in 1..Len(loggers), t \in FieldInputs : ChainWithFields(i, t)
    \/ \E a \in 1..Len(heap), key \in Keys : ChainSetKey(a, key)
    \/ \E a \in 1..Len(heap), n \in 1..MaxLen : ChainSetIndex(a, n)
    \/ \E a \in 1..Len(heap) : ChainSetPointee(a)

SpecChain == ChainInit /\ [][ChainNext]_vars

\* the addresses a reader of v can reach
RECURSIVE Reach(_, _)
Reach(v, h) ==
    CASE v.k \in {"map", "tmap"} ->
            IF v.a = 0 THEN {}
            ELSE {v.a} \cup UNION { Reach(h[v.a].m[key], h) : key \in DOMAIN h[v.a].m }
      [] v.k = "ptr" -> IF v.a = 0 THEN {} ELSE {v.a} \cup Reach(h[v.a].v, h)
      [] v.k = "slice" ->
            IF v.a = 0 THEN {}
            ELSE {v.a} \cup UNION { Reach(h[v.a].e[n], h) : n \in 1..Len(h[v.a].e) }
      [] v.k = "array" -> UNION { Reach(v.e[n], h) : n \in 1..Len(v.e) }
      [] v.k = "struct" -> UNION { Reach(v.f[n].v, h) : n \in DOMAIN v.f }
      [] OTHER -> {}

ViewOf(i) == View(loggers[i], heap)

\* C5: a chaining call leaves its receiver as it was, and the logger it returns
\* is the receiver but for the channel (WithChannel), the fields (WithFields)
\* or the context and the context fields (WithContext).
C5_ChainingIsPure ==
    \A i \in 1..Len(loggers) :
        /\ ViewOf(i) = made[i].snap
        /\ made[i].via = "channel" =>
              ViewOf(i) = [ViewOf(made[i].from) EXCEPT !.data.channel = made[i].arg.s]
        /\ made[i].via = "fields" =>
              [ViewOf(i) EXCEPT !.data.fields = ViewOf(made[i].from).data.fields]
                  = ViewOf(made[i].from)
        /\ made[i].via = "context" =>
              [ViewOf(i) EXCEPT !.data.context = ViewOf(made[i].from).data.context,
                                !.data.contextFields = ViewOf(made[i].from).data.contextFields]
                  = ViewOf(made[i].from)

\* the root has given a logger by WithFields and that one another by WithContext,
\* each with a change that shows
C5_Witness ==
    /\ Len(loggers) = 3
    /\ made[2].via = "fields" /\ made[2].from = 1
    /\ ViewOf(2).data.fields # ViewOf(1).data.fields
    /\ made[3].via = "context" /\ made[3].from = 2
    /\ ViewOf(3).data.contextFields # ViewOf(2).data.contextFields

\* C6: the fields of a logger are what they were when it was made, whatever the
\* callers do afterwards to the maps they passed in, and share no object with them.
C6_NoAliasing ==
    \A i \in 1..Len(loggers) :
        /\ Deep(loggers[i].data.fields, heap) = made[i].snap.data.fields
        /\ Reach(loggers[i].data.fields, heap) \cap callerObjs = {}

\* a map nested in the map given to WithFields was changed afterwards, and the
\* logger made from it was given further fields
C6_Witness ==
    /\ Len(loggers) = 3
    /\ made[2].via = "fields" /\ made[3].via = "fields" /\ made[3].from = 2
    /\ made[2].arg.a # 0
    /\ \E key \in DOMAIN heap[made[2].arg.a].m :
          /\ key \in DOMAIN made[2].argSnap.m
          /\ heap[made[2].arg.a].m[key].k \in {"map", "slice", "ptr"}
          /\ Deep(heap[made[2].arg.a].m[key], heap) # made[2].argSnap.m[key]

----------------------------------------------------------------------------
(* The stack trace.  A stack is the sequence of its frames, innermost      *)
(* first: runtime.Caller(i) is stack[i + 1].  The frames of the caller are *)
(* 1 (the call site), 2, ... outwards; those of the logger are negative.   *)

maxDepth == 50
\* the zero value of an entry of traces: the empty string
NoFrame == 0
FrameGetStackTrace == 0 - 3
FrameLogError == 0 - 2
FrameMethod == 0 - 1

\* the stack inside getStackTrace, called from logError, called from a public
\* method, called from a call site with depth frames
goStack(depth) == <<FrameGetStackTrace, FrameLogError, FrameMethod>> \o [j \in 1..depth |-> j]

\* the value of depth after the capture loop
capturedDepth(stack) == IF Len(stack) < maxDepth THEN Len(stack) ELSE maxDepth

\* the array traces after the capture loop
capturedTraces(stack) ==
    [i \in 0..(maxDepth - 1) |-> IF i + 1 <= Len(stack) THEN stack[i + 1] ELSE NoFrame]

\* mutant: the loop reads in capture order: skip+1, .. depth-1, depth
assembleOrderInnermostFirst(depth, skip) ==
    [n \in 1..(IF depth > skip THEN depth - skip ELSE 0) |-> skip + n]

\* the indexes the assembling loop reads, in its order: depth, depth-1, .. skip+1
assembleOrder(depth, skip) ==
    [n \in 1..(IF depth > skip THEN depth - skip ELSE 0) |-> depth - n + 1]

\* the string built from the entries read; an empty entry adds nothing
assemble(traces, order) ==
    [k |-> "trace", frames |-> SelectSeq([n \in DOMAIN order |-> traces[order[n]]],
                                         LAMBDA f : f # NoFrame)]

\* panic: the loop read traces at an index outside the array
getStackTraceOf(stack, order) ==
    IF \E n \in DOMAIN order : order[n] \notin 0..(maxDepth - 1)
    THEN [panic |-> TRUE, trace |-> [k |-> "trace", frames |-> <<>>]]
    ELSE [panic |-> FALSE, trace |-> assemble(capturedTraces(stack), order)]

getStackTrace(depthSkip, stack) ==
    getStackTraceOf(stack, assembleOrder(capturedDepth(stack), depthSkip + 1))

----------------------------------------------------------------------------
(* A log call, step by step.                                               *)

RuntimeError == "index out of range"
ExitStatusFatal == 1
\* the status of a process that ends with a panic nobody recovered
ExitStatusPanic == 2
\* tracing.GetSpan(ctx): the contexts that carry a span
HasSpan(ctx) == ctx = "ctx1"

\* goroutine p goes on at position at, its call being c
Goes(p, at, c) ==
    /\ pc' = [pc EXCEPT ![p] = at]
    /\ call' = [call EXCEPT ![p] = c]

\* goroutine p is about to call a method of the logger
Calls(p) ==
    /\ exited = 0
    /\ p \in procs
    /\ pc[p] = "idle"

\* the call: on logger l, at this level, with what the method does after log
Begin(l, level, after, e, depth) ==
    [NoCall EXCEPT !.lg = l, !.level = level, !.after = after, !.e = e, !.depth = depth]

\* a panic with the value pv leaves the call c of goroutine p: the recovery
\* boundary of a guarded caller takes it, or the process ends
Unwind(p, c, pv, guarded) ==
    IF guarded
    THEN /\ Goes(p, "done", [c EXCEPT !.out = "panicked", !.pv = pv])
         /\ recovered' = [recovered EXCEPT ![p] = pv]
         /\ exited' = exited
    ELSE /\ Goes(p, "done", [c EXCEPT !.out = "crashed", !.pv = pv])
         /\ recovered' = recovered
         /\ exited' = ExitStatusPanic

\* cpyData, as the hooks and the formatter read it
cpyData(l, merged) ==
    [channel |-> l.data.channel,
     context |-> l.data.context,
     contextFields |-> Deep(l.data.contextFields, merged.h),
     fields |-> Deep(merged.v, merged.h),
     tags |-> Deep(l.data.tags, merged.h)]

\* the call passed the level check; what the merge allocated is its own
logAccepted(p, c, merged) ==
    /\ Goes(p, "hook", [c EXCEPT !.accepted = TRUE, !.hook = 1,
                                 !.meta = cpyData(loggers[c.lg], merged)])
    /\ heap' = SubSeq(merged.h, 1, Len(heap))

\* levelNo < l.level
logRejects(c) == levelPriority(c.level) < loggers[c.lg].level

\* mutant: the call-site fields are stored into the logger's own map of fields
logIntoRetained(p, c, fields) ==
    IF logRejects(c)
    THEN /\ Goes(p, "after", c)
         /\ heap' = heap
    ELSE logAccepted(p, c, [v |-> loggers[c.lg].data.fields,
                            h |-> rangeMap(fields.v, loggers[c.lg].data.fields.a, fields.h)])

\* l.log(level, msg, logErr, fields), up to the loop over the hooks
log(p, c, fields) ==
    IF logRejects(c)
    THEN /\ Goes(p, "after", c)
         /\ heap' = heap
    ELSE logAccepted(p, c, mergeMapStringInterface(loggers[c.lg].data.fields,
                                                   fields.v, fields.h))

\* Fields{}
NoFields == [k |-> "map", m |-> EmptyFn]
\* Fields{"stacktrace": trace}
StackFields(trace) == [k |-> "map", m |-> ("stacktrace" :> trace)]

logVia(p, c) ==
    /\ log(p, c, Load(NoFields, heap))
    /\ UNCHANGED <<chainVars, sanVars, procs, menu, lockHolder, sink, stderr, spanErrs,
                   exited, recovered>>

\* l.level > levels[Debug]
\* mutant: the early check also turns away a logger whose level is debug
debugReturnsEarlyAtDebug(l) == loggers[l].level >= levelPriority("debug")

debugReturnsEarly(l) == loggers[l].level > levelPriority("debug")

debugVia(p, c) ==
    IF debugReturnsEarly(c.lg)
    THEN /\ Goes(p, "done", [c EXCEPT !.out = "returned"])
         /\ UNCHANGED <<heap, chainVars, sanVars, procs, menu, lockHolder, sink, stderr,
                        spanErrs, exited, recovered>>
    ELSE logVia(p, c)

\* mutant: logError hands no field of its own to log
logErrorNoTrace(p, c, st, guarded) ==
    IF st.panic
    THEN /\ Unwind(p, c, RuntimeError, guarded)
         /\ heap' = heap
    ELSE /\ log(p, c, Load(NoFields, heap))
         /\ UNCHANGED <<exited, recovered>>

logErrorTraced(p, c, st, guarded) ==
    IF st.panic
    THEN /\ Unwind(p, c, RuntimeError, guarded)
         /\ heap' = heap
    ELSE /\ log(p, c, Load(StackFields(st.trace), heap))
         /\ UNCHANGED <<exited, recovered>>

\* l.logError(level, err, msg)
logError(p, c, guarded) ==
    /\ spanErrs' = IF loggers[c.lg].data.context # NoContext
                      /\ HasSpan(loggers[c.lg].data.context)
                   THEN spanErrs \cup {[ctx |-> loggers[c.lg].data.context, e |-> c.e]}
                   ELSE spanErrs
    /\ logErrorTraced(p, c, getStackTrace(1, goStack(c.depth)), guarded)
    /\ UNCHANGED <<chainVars, sanVars, procs, menu, lockHolder, sink, stderr>>

Debug(p, l) == Calls(p) /\ debugVia(p, Begin(l, "debug", "return", NoErr, 0))
Debugf(p, l) == Calls(p) /\ debugVia(p, Begin(l, "debug", "return", NoErr, 0))
Info(p, l) == Calls(p) /\ logVia(p, Begin(l, "info", "return", NoErr, 0))
Infof(p, l) == Calls(p) /\ logVia(p, Begin(l, "info", "return", NoErr, 0))
Warn(p, l) == Calls(p) /\ logVia(p, Begin(l, "warn", "return", NoErr, 0))
Warnf(p, l) == Calls(p) /\ logVia(p, Begin(l, "warn", "return", NoErr, 0))

\* the error-class methods: called with the error e from a call site that has
\* depth frames, under a recovery boundary or not
Error(p, l, e, depth, guarded) ==
    Calls(p) /\ logError(p, Begin(l, "error", "return", e, depth), guarded)
Errorf(p, l, e, depth, guarded) ==
    Calls(p) /\ logError(p, Begin(l, "error", "return", e, depth), guarded)
Fatal(p, l, e, depth, guarded) ==
    Calls(p) /\ logError(p, Begin(l, "fatal", "exit", e, depth), guarded)
Fatalf(p, l, e, depth, guarded) ==
    Calls(p) /\ logError(p, Begin(l, "fatal", "exit", e, depth), guarded)
Panic(p, l, e, depth, guarded) ==
    Calls(p) /\ logError(p, Begin(l, "panic", "panic", e, depth), guarded)
Panicf(p, l, e, depth, guarded) ==
    Calls(p) /\ logError(p, Begin(l, "panic", "panic", e, depth), guarded)

\* what the steps of a call leave alone
CallFrame == UNCHANGED <<heap, chainVars, sanVars, procs, menu, spanErrs>>

\* the hooks of the logger the call c is made on
HooksOf(c) == loggers[c.lg].hooks

\* mutant: the loop over the hooks ends at the first hook that fails
FireHookBreak(p, fails) ==
    /\ exited = 0
    /\ pc[p] = "hook"
    /\ call[p].hook <= Len(HooksOf(call[p]))
    /\ fails \in {FALSE} \cup {menu.hookFaults}
    /\ IF fails
       THEN Goes(p, "err", [call[p] EXCEPT !.fired = Append(@, call[p].hook),
                                           !.failed = @ \cup {call[p].hook},
                                           !.hook = Len(HooksOf(call[p])) + 1])
       ELSE Goes(p, "hook", [call[p] EXCEPT !.fired = Append(@, call[p].hook),
                                            !.hook = @ + 1])
    /\ CallFrame
    /\ UNCHANGED <<lockHolder, sink, stderr, exited, recovered>>

\* h.Fire(level, msg, logErr, &cpyData), for the next hook of the loop
FireHook(p, fails) ==
    /\ exited = 0
    /\ pc[p] = "hook"
    /\ call[p].hook <= Len(HooksOf(call[p]))
    /\ fails \in {FALSE} \cup {menu.hookFaults}
    /\ IF fails
       THEN Goes(p, "err", [call[p] EXCEPT !.fired = Append(@, call[p].hook),
                                           !.failed = @ \cup {call[p].hook},
                                           !.hook = @ + 1])
       ELSE Goes(p, "hook", [call[p] EXCEPT !.fired = Append(@, call[p].hook),
                                            !.hook = @ + 1])
    /\ CallFrame
    /\ UNCHANGED <<lockHolder, sink, stderr, exited, recovered>>

\* the output of the formatter: the line, or nothing with an error
Formatted(kind, h, fmtFails) ==
    [kind |-> kind, h |-> h, n |-> IF fmtFails THEN 0 ELSE BufLen]

\* fmt.Fprintf(os.Stderr, "Failed to write to log, %v\n", err)
Report(p, why, buf) == Append(stderr, [p |-> p, why |-> why, kind |-> buf.kind, h |-> buf.h])

\* the formatter made the buffer buf for goroutine p; l.write(buffer) is next
\* and the call goes on at ret after it
formatDone(p, buf, fmtFails, ret) ==
    /\ Goes(p, "lock", [call[p] EXCEPT !.buf = buf, !.ret = ret])
    /\ stderr' = IF fmtFails THEN Report(p, "format", buf) ELSE stderr
    /\ CallFrame
    /\ UNCHANGED <<lockHolder, sink, exited, recovered>>

\* mutant: the failure of a hook is printed to os.Stderr and nothing is written
errToStderr(p, fmtFails) ==
    /\ exited = 0
    /\ pc[p] = "err"
    /\ fmtFails \in {FALSE} \cup {menu.faults}
    /\ Goes(p, "hook", call[p])
    /\ stderr' = Report(p, "hook", Formatted("hookerr", call[p].hook - 1, FALSE))
    /\ CallFrame
    /\ UNCHANGED <<lockHolder, sink, exited, recovered>>

\* l.err(err), for the error of the hook that has just failed
err(p, fmtFails) ==
    /\ exited = 0
    /\ pc[p] = "err"
    /\ fmtFails \in {FALSE} \cup {menu.faults}
    /\ formatDone(p, Formatted("hookerr", call[p].hook - 1, fmtFails), fmtFails, "hook")

\* mutant: the line of the call is formatted whether the hooks have run or not
logFormatBeforeHooks(p, fmtFails) ==
    /\ exited = 0
    /\ pc[p] = "hook"
    /\ fmtFails \in {FALSE} \cup {menu.faults}
    /\ formatDone(p, Formatted("line", 0, fmtFails), fmtFails, "after")

\* the loop over the hooks is over: the line of the call is formatted
logFormat(p, fmtFails) ==
    /\ exited = 0
    /\ pc[p] = "hook"
    /\ call[p].hook > Len(HooksOf(call[p]))
    /\ fmtFails \in {FALSE} \cup {menu.faults}
    /\ formatDone(p, Formatted("line", 0, fmtFails), fmtFails, "after")

\* the mutex of the logger the call c is made on
LockOf(c) == loggers[c.lg].outputLck

\* l.outputLck.Lock(), and the call of l.output.Write(buffer)
Lock(p) ==
    /\ exited = 0
    /\ pc[p] = "lock"
    /\ lockHolder[LockOf(call[p])] = 0
    /\ lockHolder' = [lockHolder EXCEPT ![LockOf(call[p])] = p]
    /\ Goes(p, "write", [call[p] EXCEPT
            !.widx = 0,
            !.lineWrites = IF call[p].buf.kind = "line" THEN @ + 1 ELSE @,
            !.errWrites = IF call[p].buf.kind = "hookerr" THEN @ + 1 ELSE @])
    /\ CallFrame
    /\ UNCHANGED <<sink, stderr, exited, recovered>>

\* Write puts the next part of the buffer into the sink
Write(p) ==
    /\ exited = 0
    /\ pc[p] = "write"
    /\ call[p].widx < call[p].buf.n
    /\ sink' = Append(sink, [p |-> p, kind |-> call[p].buf.kind, h |-> call[p].buf.h,
                             i |-> call[p].widx + 1])
    /\ Goes(p, "write", [call[p] EXCEPT !.widx = @ + 1])
    /\ CallFrame
    /\ UNCHANGED <<lockHolder, stderr, exited, recovered>>

\* Write is over: the deferred Unlock runs and write returns
writeReturns(p) ==
    /\ lockHolder' = [lockHolder EXCEPT ![LockOf(call[p])] = 0]
    /\ Goes(p, call[p].ret, call[p])
    /\ CallFrame
    /\ UNCHANGED <<sink, exited, recovered>>

\* mutant: after an error of Write the buffer is written once more
WriteErrorRetry(p) ==
    /\ exited = 0
    /\ pc[p] = "write"
    /\ menu.faults
    /\ call[p].widx < call[p].buf.n \/ call[p].buf.n = 0
    /\ stderr' = Report(p, "write", call[p].buf)
    /\ lockHolder' = [lockHolder EXCEPT ![LockOf(call[p])] = 0]
    /\ Goes(p, "lock", call[p])
    /\ CallFrame
    /\ UNCHANGED <<sink, exited, recovered>>

\* mutant: write returns after an error of Write without the Unlock
WriteErrorKeepsLock(p) ==
    /\ exited = 0
    /\ pc[p] = "write"
    /\ menu.faults
    /\ call[p].widx < call[p].buf.n \/ call[p].buf.n = 0
    /\ stderr' = Report(p, "write", call[p].buf)
    /\ Goes(p, call[p].ret, call[p])
    /\ CallFrame
    /\ UNCHANGED <<lockHolder, sink, exited, recovered>>

\* Write returns an error, with what it had written so far left in the sink
WriteError(p) ==
    /\ exited = 0
    /\ pc[p] = "write"
    /\ menu.faults
    /\ call[p].widx < call[p].buf.n \/ call[p].buf.n = 0
    /\ stderr' = Report(p, "write", call[p].buf)
    /\ writeReturns(p)

\* Write returns without an error
WriteReturn(p) ==
    /\ exited = 0
    /\ pc[p] = "write"
    /\ call[p].widx = call[p].buf.n
    /\ stderr' = stderr
    /\ writeReturns(p)

AfterFrame == UNCHANGED <<lockHolder, sink, stderr>>

\* log has returned and so does Debug, Info, Warn or Error
Return(p) ==
    /\ exited = 0
    /\ pc[p] = "after"
    /\ call[p].after = "return"
    /\ Goes(p, "done", [call[p] EXCEPT !.out = "returned"])
    /\ CallFrame /\ AfterFrame
    /\ UNCHANGED <<exited, recovered>>

\* os.Exit(1), after logError has returned to Fatal
osExit(p) ==
    /\ exited = 0
    /\ pc[p] = "after"
    /\ call[p].after = "exit"
    /\ Goes(p, "done", [call[p] EXCEPT !.out = "exited"])
    /\ exited' = ExitStatusFatal
    /\ recovered' = recovered
    /\ CallFrame /\ AfterFrame

\* panic(err), after logError has returned to Panic
panic(p, guarded) ==
    /\ exited = 0
    /\ pc[p] = "after"
    /\ call[p].after = "panic"
    /\ Unwind(p, call[p], call[p].e, guarded)
    /\ CallFrame /\ AfterFrame

----------------------------------------------------------------------------
(* The logging scenarios: a root logger is configured and each goroutine   *)
(* makes one log call, on the root or on a logger derived from it.         *)

LevelNames == DOMAIN levels
Errs == {"boom"}
\* a call site near the bottom of its goroutine, and one so deep that the
\* stack inside getStackTrace has maxDepth frames
StackDepths == {ShallowStack, maxDepth - 3}
LogFieldInputs == { [k |-> "map", m |-> ("a" :> VErr("boom") @@ "b" :> VPrim("x"))] }
HookList(n) == [i \in 1..n |-> Sprint(i)]

\* the root logger has one of the levels lvls and one of the numbers of hooks ns
LogInit(ps, m, lvls, ns) ==
    /\ \E lv \in lvls, n \in ns :
          LET r == newLogger([DefaultSettings EXCEPT !.level = lv], <<"r1", "r2">>,
                             HookList(n), <<>>)
          IN /\ heap = r.h
             /\ loggers = <<r.l>>
             /\ made = <<[via |-> "root", from |-> 0, arg |-> VNil, argSnap |-> VNil,
                          snap |-> View(r.l, r.h)]>>
    /\ callerObjs = {}
    /\ nMut = 0
    /\ lastRet = 0
    /\ sPc = "off"
    /\ sIn1 = VNil
    /\ sIn2 = VNil
    /\ sOut = VNil
    /\ sOut2 = VNil
    /\ LogStart(ps, m)

\* a logger is derived before anybody logs
Setup == Len(loggers) = 1 /\ \A p \in AllProcs : pc[p] = "idle"

SetupNext ==
    \/ Setup /\ \E c \in Channels : ChainWithChannel(1, c)
    \/ Setup /\ \E ctx \in Contexts \ {NoContext} : ChainWithContext(1, ctx)
    \/ Setup /\ \E t \in LogFieldInputs : ChainWithFields(1, t)

CallNext ==
    \/ \E p \in procs, l \in 1..Len(loggers) : Debug(p, l)
    \/ \E p \in procs, l \in 1..Len(loggers) : Debugf(p, l)
    \/ \E p \in procs, l \in 1..Len(loggers) : Info(p, l)
    \/ \E p \in procs, l \in 1..Len(loggers) : Infof(p, l)
    \/ \E p \in procs, l \in 1..Len(loggers) : Warn(p, l)
    \/ \E p \in procs, l \in 1..Len(loggers) : Warnf(p, l)
    \/ \E p \in procs, l \in 1..Len(loggers), e \in Errs, d \in menu.depths, g \in BOOLEAN :
          Error(p, l, e, d, g)
    \/ \E p \in procs, l \in 1..Len(loggers), e \in Errs, d \in menu.depths, g \in BOOLEAN :
          Errorf(p, l, e, d, g)
    \/ \E p \in procs, l \in 1..Len(loggers), e \in Errs, d \in menu.depths, g \in BOOLEAN :
          Fatal(p, l, e, d, g)
    \/ \E p \in procs, l \in 1..Len(loggers), e \in Errs, d \in menu.depths, g \in BOOLEAN :
          Fatalf(p, l, e, d, g)
    \/ \E p \in procs, l \in 1..Len(loggers), e \in Errs, d \in menu.depths, g \in BOOLEAN :
          Panic(p, l, e, d, g)
    \/ \E p \in procs, l \in 1..Len(loggers), e \in Errs, d \in menu.depths, g \in BOOLEAN :
          Panicf(p, l, e, d, g)
    \/ \E p \in procs, fails \in BOOLEAN : FireHook(p, fails)
    \/ \E p \in procs, fmtFails \in BOOLEAN : err(p, fmtFails)
    \/ \E p \in procs, fmtFails \in BOOLEAN : logFormat(p, fmtFails)
    \/ \E p \in procs : Lock(p)
    \/ \E p \in procs : Write(p)
    \/ \E p \in procs : WriteError(p)
    \/ \E p \in procs : WriteReturn(p)
    \/ \E p \in procs : Return(p)
    \/ \E p \in procs : osExit(p)
    \/ \E p \in procs, g \in BOOLEAN : panic(p, g)

\* one caller, every method, every level, up to MaxHooks hooks, and hooks,
\* formatter and sink that may fail
OneCaller ==
    LogInit({1}, [depths |-> StackDepths, faults |-> TRUE, hookFaults |-> TRUE],
            LevelNames, 0..MaxHooks)

Spec == OneCaller /\ [][CallNext]_vars

\* NumProcs callers at once, each with an Info call on a logger of the family;
\* the root has the default level and one hook, which may fail
ManyCallers ==
    LogInit(AllProcs, [depths |-> {}, faults |-> FALSE, hookFaults |-> TRUE], {"info"}, {1})

ConcNext ==
    \/ SetupNext
    \/ \E p \in procs, l \in 1..Len(loggers) : Info(p, l)
    \/ \E p \in procs, fails \in BOOLEAN : FireHook(p, fails)
    \/ \E p \in procs, fmtFails \in BOOLEAN : err(p, fmtFails)
    \/ \E p \in procs, fmtFails \in BOOLEAN : logFormat(p, fmtFails)
    \/ \E p \in procs : Lock(p)
    \/ \E p \in procs : Write(p)
    \/ \E p \in procs : WriteReturn(p)
    \/ \E p \in procs : Return(p)

SpecConc == ManyCallers /\ [][ConcNext]_vars

----------------------------------------------------------------------------
(* What the log calls do.                                                  *)

\* the buffer (kind, h) of goroutine p is in the sink, whole and in one piece
Whole(p, kind, h) ==
    \E j \in 1..Len(sink) :
        \A i \in 1..BufLen :
            /\ j + i - 1 <= Len(sink)
            /\ sink[j + i - 1] = [p |-> p, kind |-> kind, h |-> h, i |-> i]
\* a failure of the formatter or of Write for that buffer was printed to os.Stderr
Reported(p, kind, h) ==
    \E r \in 1..Len(stderr) : stderr[r].p = p /\ stderr[r].kind = kind /\ stderr[r].h = h
\* log has returned in the call of goroutine p
LogOver(p) == pc[p] \in {"after", "done"}
\* the call of goroutine p is over, one way or another
CallOver(p) == pc[p] = "done"
LevelPasses(c) == levelPriority(c.level) >= loggers[c.lg].level

\* C1: a log call writes to the sink if and only if the priority of its level
\* is at least that of the logger's configured level.
C1_WritesIffLevelPasses ==
    \A p \in procs :
        CallOver(p) => (call[p].lineWrites > 0 <=> LevelPasses(call[p]))

\* C2: the loggers of a family have the mutex and the sink of the root, at most
\* one caller is inside Write, and the sink is a sequence of whole buffers, each
\* in one piece, but for the buffer that is being written.
C2_OneWriterWholeLines ==
    /\ \A i \in 1..Len(loggers) :
          /\ loggers[i].outputLck = loggers[1].outputLck
          /\ loggers[i].output = loggers[1].output
    /\ Cardinality({p \in procs : pc[p] = "write"}) <= 1
    /\ \A p \in procs : pc[p] = "write" => lockHolder[LockOf(call[p])] = p
    /\ \A j \in 1..Len(sink) :
          /\ sink[j].i > 1 => j > 1 /\ sink[j - 1] = [sink[j] EXCEPT !.i = @ - 1]
          /\ sink[j].i < BufLen =>
                \/ j < Len(sink) /\ sink[j + 1] = [sink[j] EXCEPT !.i = @ + 1]
                \/ /\ j = Len(sink)
                   /\ pc[sink[j].p] = "write"
                   /\ call[sink[j].p].buf.kind = sink[j].kind
                   /\ call[sink[j].p].buf.h = sink[j].h
                   /\ call[sink[j].p].widx = sink[j].i
          /\ \A k \in 1..Len(sink) : sink[k] = sink[j] => k = j

\* a caller is half way through its line while another, on another logger of the
\* family, waits for the mutex, and a buffer is in the sink already
C2_Witness ==
    \E p \in procs, q \in procs :
        /\ pc[p] = "write" /\ call[p].widx = 1 /\ call[p].buf.kind = "line"
        /\ pc[q] = "lock"
        /\ call[p].lg # call[q].lg
        /\ Len(sink) > BufLen

\* C3: when a hook of an accepted call fails, the later hooks are fired all the
\* same, the line of the call is formatted and written, and log returns to the
\* method that called it, which ends as it does when no hook fails.
C3_HookFailureStopsNothing ==
    \A p \in procs :
        call[p].accepted =>
            /\ LogOver(p) =>
                  /\ call[p].fired = [i \in 1..Len(HooksOf(call[p])) |-> i]
                  /\ call[p].lineWrites = 1
                  /\ ~Reported(p, "line", 0) => Whole(p, "line", 0)
            /\ CallOver(p) =>
                  /\ call[p].after = "return" => call[p].out = "returned"
                  /\ call[p].after = "exit" => call[p].out = "exited"
                  /\ call[p].after = "panic" =>
                        call[p].out \in {"panicked", "crashed"} /\ call[p].pv = call[p].e

\* the first of two hooks failed, the second was fired, the line is in the sink
\* and the call has returned
C3_Witness ==
    \E p \in procs :
        /\ CallOver(p) /\ call[p].out = "returned"
        /\ call[p].failed = {1}
        /\ call[p].fired = <<1, 2>>
        /\ Whole(p, "line", 0)

C9_FatalAlwaysExits ==
    \A p \in procs :
        CallOver(p) /\ call[p].after = "exit" =>
            /\ exited # 0
            /\ LevelPasses(call[p]) => call[p].lineWrites = 1

\* C10: a call of Panic or Panicf with the error e ends with a panic whose value
\* is e, which a recovery boundary of the caller receives, after the log path has
\* run and written the line if the call passed the level check.
C10_PanicRaisesItsError ==
    \A p \in procs :
        CallOver(p) /\ call[p].after = "panic" =>
            /\ call[p].pv = call[p].e
            /\ call[p].out = "panicked" => recovered[p] = call[p].e /\ exited = 0
            /\ LevelPasses(call[p]) => call[p].lineWrites = 1

----------------------------------------------------------------------------
(* One caller on a family: a logger may be derived from the root before    *)
(* the call, which is made on either of the two.                           *)

\* every method, and every step of a call but a failure of the formatter or
\* of Write
FamilyNext ==
    \/ SetupNext
    \/ \E p \in procs, l \in 1..Len(loggers) : Debug(p, l)
    \/ \E p \in procs, l \in 1..Len(loggers) : Debugf(p, l)
    \/ \E p \in procs, l \in 1..Len(loggers) : Info(p, l)
    \/ \E p \in procs, l \in 1..Len(loggers) : Infof(p, l)
    \/ \E p \in procs, l \in 1..Len(loggers) : Warn(p, l)
    \/ \E p \in procs, l \in 1..Len(loggers) : Warnf(p, l)
    \/ \E p \in procs, l \in 1..Len(loggers), e \in Errs, d \in menu.depths, g \in BOOLEAN :
          Error(p, l, e, d, g)
    \/ \E p \in procs, l \in 1..Len(loggers), e \in Errs, d \in menu.depths, g \in BOOLEAN :
          Errorf(p, l, e, d, g)
    \/ \E p \in procs, l \in 1..Len(loggers), e \in Errs, d \in menu.depths, g \in BOOLEAN :
          Fatal(p, l, e, d, g)
    \/ \E p \in procs, l \in 1..Len(loggers), e \in Errs, d \in menu.depths, g \in BOOLEAN :
          Fatalf(p, l, e, d, g)
    \/ \E p \in procs, l \in 1..Len(loggers), e \in Errs, d \in menu.depths, g \in BOOLEAN :
          Panic(p, l, e, d, g)
    \/ \E p \in procs, l \in 1..Len(loggers), e \in Errs, d \in menu.depths, g \in BOOLEAN :
          Panicf(p, l, e, d, g)
    \/ \E p \in procs, fails \in BOOLEAN : FireHook(p, fails)
    \/ \E p \in procs, fmtFails \in BOOLEAN : err(p, fmtFails)
    \/ \E p \in procs, fmtFails \in BOOLEAN : logFormat(p, fmtFails)
    \/ \E p \in procs : Lock(p)
    \/ \E p \in procs : Write(p)
    \/ \E p \in procs : WriteReturn(p)
    \/ \E p \in procs : Return(p)
    \/ \E p \in procs : osExit(p)
    \/ \E p \in procs, g \in BOOLEAN : panic(p, g)

\* the root lets every level pass, or warn and above; it has MaxHooks hooks,
\* which may fail
FamilyCaller ==
    LogInit({1}, [depths |-> StackDepths, faults |-> FALSE, hookFaults |-> TRUE],
            {"debug", "warn"}, {MaxHooks})

SpecFamily == FamilyCaller /\ [][FamilyNext]_vars

ErrorClass == {"error", "fatal", "panic"}
\* the fields the logger of the call c has retained, as a reader sees them
RetainedFields(c) == Deep(loggers[c.lg].data.fields, heap)
\* the map m without the key
Without(m, key) == [x \in DOMAIN m \ {key} |-> m[x]]

\* C11: the metadata of an accepted Error, Fatal or Panic call (and of their f
\* variants) has a "stacktrace" field on top of the logger's retained fields;
\* the fields of an accepted Debug, Info or Warn call are the retained fields
\* and nothing else.
C11_StacktraceForErrorsOnly ==
    \A p \in procs :
        call[p].accepted =>
            /\ call[p].meta.fields.k = "map"
            /\ call[p].level \in ErrorClass =>
                  /\ "stacktrace" \in DOMAIN call[p].meta.fields.m
                  /\ call[p].meta.fields.m["stacktrace"].k = "trace"
                  /\ Without(call[p].meta.fields.m, "stacktrace") = RetainedFields(call[p]).m
            /\ call[p].level \notin ErrorClass =>
                  call[p].meta.fields = RetainedFields(call[p])

\* an Error call was accepted on a logger that WithFields has given two fields,
\* and has returned
C11_Witness ==
    \E p \in procs :
        /\ call[p].accepted /\ pc[p] = "done"
        /\ call[p].lg = 2 /\ made[2].via = "fields"
        /\ DOMAIN RetainedFields(call[p]).m = {"a", "b"}
        /\ call[p].level = "error"
        /\ DOMAIN call[p].meta.fields.m = {"a", "b", "stacktrace"}

----------------------------------------------------------------------------
(* The configured level name: the settings may carry a name that is none   *)
(* of the seven levels.                                                    *)

ConfigNames == LevelNames \cup {"verbose"}

\* the root is made from settings with the level name lv, which is remembered
ConfigCaller ==
    /\ \E lv \in ConfigNames :
          LET r == newLogger([DefaultSettings EXCEPT !.level = lv], <<>>, <<>>, <<>>)
          IN /\ heap = r.h
             /\ loggers = <<r.l>>
             /\ made = <<[via |-> "root", from |-> 0, arg |-> VPrim(lv), argSnap |-> VPrim(lv),
                          snap |-> View(r.l, r.h)]>>
    /\ callerObjs = {}
    /\ nMut = 0
    /\ lastRet = 0
    /\ sPc = "off"
    /\ sIn1 = VNil
    /\ sIn2 = VNil
    /\ sOut = VNil
    /\ sOut2 = VNil
    /\ LogStart({1}, [depths |-> {ShallowStack}, faults |-> FALSE, hookFaults |-> FALSE])

ConfigNext ==
    \/ \E p \in procs : Debug(p, 1)
    \/ \E p \in procs : Info(p, 1)
    \/ \E p \in procs : Warn(p, 1)
    \/ \E p \in procs, e \in Errs, d \in menu.depths, g \in BOOLEAN : Error(p, 1, e, d, g)
    \/ \E p \in procs, fmtFails \in BOOLEAN : logFormat(p, fmtFails)
    \/ \E p \in procs : Lock(p)
    \/ \E p \in procs : Write(p)
    \/ \E p \in procs : WriteReturn(p)
    \/ \E p \in procs : Return(p)

SpecConfig == ConfigCaller /\ [][ConfigNext]_vars

\* the level name the root was configured with
ConfiguredName == made[1].arg.s

\* C12: no logger has the threshold 0, which lets everything pass, unless the
\* level name it was configured with is trace: a name that is none of the
\* seven levels is rejected when the logger is configured.
C12_UnknownLevelRejected ==
    \A i \in 1..Len(loggers) :
        /\ ConfiguredName \in LevelNames
        /\ loggers[i].level = levelPriority("trace") => ConfiguredName = "trace"

----------------------------------------------------------------------------
(* Lists in the sanitizer.                                                 *)

\* i is what a reader sees of an input and o of its sanitized form: wherever
\* the input holds a list, the output holds one of the same length, and nil
\* where the input holds a nil slice
RECURSIVE ListsKept(_, _)
ListsKept(i, o) ==
    CASE i.k = "nilslice" -> o = VNil
      [] i.k \in {"slice", "array"} ->
            /\ o.k = "slice"
            /\ Len(o.e) = Len(i.e)
            /\ \A n \in 1..Len(i.e) : ListsKept(i.e[n], o.e[n])
      [] i.k = "map" ->
            /\ o.k = "map"
            /\ DOMAIN o.m = DOMAIN i.m
            /\ \A key \in DOMAIN i.m : ListsKept(i.m[key], o.m[key])
      [] i.k = "tmap" ->
            /\ o.k = "map"
            /\ \A key \in DOMAIN i.m : ListsKept(i.m[key], o.m[Sprint(key)])
      [] i.k = "ptr" -> ListsKept(i.v, o)
      [] i.k = "struct" ->
            /\ o.k = "map"
            /\ \A n \in DOMAIN i.f : i.f[n].exp => ListsKept(i.f[n].v, o.m[n])
      [] OTHER -> TRUE

\* the elements of the list v, a slice that is not nil or an array
ElemsOf(v, h) == IF v.k = "array" THEN v.e ELSE h[v.a].e
IsList(v) == v.k = "array" \/ (v.k = "slice" /\ v.a # 0)

\* C15: prepareForLog turns a nil slice into nil, and a slice that is not nil
\* or an array of length n into a new list of length n whose elements are the
\* sanitized elements, whatever n is and however deep the list is nested.
C15_ListsKeepAbsentAndEmpty ==
    sPc \in {"again", "done"} =>
        /\ ListsKept(Deep(sIn1, heap), Deep(sOut, heap))
        /\ sIn1.k = "slice" /\ sIn1.a = 0 => sOut = VNil
        /\ IsList(sIn1) =>
              /\ sOut.k = "slice" /\ sOut.a # 0
              /\ sOut.a \notin Reach(sIn1, heap)
              /\ Len(heap[sOut.a].e) = Len(ElemsOf(sIn1, heap))
              /\ \A n \in 1..Len(ElemsOf(sIn1, heap)) :
                    Deep(heap[sOut.a].e[n], heap) = Sanitized(ElemsOf(sIn1, heap)[n], heap)

\* an array holding an empty slice was sanitized: a list holding an empty list
C15_Witness ==
    /\ sPc = "again"
    /\ Deep(sIn1, heap) = [k |-> "array", e |-> <<[k |-> "slice", e |-> <<>>]>>]
    /\ Deep(sOut, heap) = [k |-> "slice", e |-> <<[k |-> "slice", e |-> <<>>]>>]

----------------------------------------------------------------------------
(* The stack trace scenario: getStackTrace(depthSkip) is called once, from  *)
(* logError's position, below a call site of some depth.                    *)

TraceInit ==
    /\ heap = <<>>
    /\ loggers = <<>>
    /\ made = <<>>
    /\ callerObjs = {}
    /\ nMut = 0
    /\ lastRet = 0
    /\ LogStart({}, NoMenu)
    /\ sPc = "trace"
    /\ sIn1 \in 1..MaxStack
    /\ sIn2 \in 0..MaxSkip
    /\ sOut = VNil
    /\ sOut2 = <<>>

\* out := getStackTrace(depthSkip); out2 keeps the indexes at which the
\* assembling loop reads traces
TraceCapture ==
    /\ sPc = "trace"
    /\ sOut' = getStackTrace(sIn2, goStack(sIn1))
    /\ sOut2' = assembleOrder(capturedDepth(goStack(sIn1)), sIn2 + 1)
    /\ sPc' = "traced"
    /\ UNCHANGED <<heap, chainVars, sIn1, sIn2, logVars>>

TraceNext == TraceCapture

SpecTrace == TraceInit /\ [][TraceNext]_vars

\* getStackTrace returned for the call that logError makes
TraceOfError == sPc = "traced" /\ sIn2 = 1 /\ ~sOut.panic
InternalFrames == {FrameGetStackTrace, FrameLogError, FrameMethod}
FramesOf(t) == {t.frames[n] : n \in DOMAIN t.frames}
\* the frame that called the public method: the first one above the internal ones
CallSite == goStack(MaxStack)[Cardinality(InternalFrames) + 1]

\* C14 as stated: the first rendered frame line of the stacktrace of an Error
\* call is the call site of Error, and no frame of getStackTrace, logError or
\* the method itself is rendered.
C14_FirstFrameIsCallSite ==
    TraceOfError =>
        /\ sOut.trace.frames # <<>>
        /\ Head(sOut.trace.frames) = CallSite
        /\ FramesOf(sOut.trace) \cap InternalFrames = {}

\* C14 amended: the frames are rendered outermost first, so the call site of
\* Error is the last rendered frame line; no frame of getStackTrace, logError
\* or the method itself is rendered.
C14_LastFrameIsCallSite ==
    TraceOfError =>
        /\ sOut.trace.frames # <<>>
        /\ sOut.trace.frames[Len(sOut.trace.frames)] = CallSite
        /\ FramesOf(sOut.trace) \cap InternalFrames = {}

\* the trace of an Error called three frames deep was rendered
C14_Witness ==
    /\ TraceOfError
    /\ sIn1 = 3
    /\ sOut.trace.frames = <<3, 2, CallSite>>

\* the frames of the stack with capture index above depthSkip+1, among the
\* first maxDepth, outermost first
KeptFrames(stack, depthSkip) ==
    [n \in 1..(IF capturedDepth(stack) > depthSkip + 2
               THEN capturedDepth(stack) - depthSkip - 2 ELSE 0) |->
        stack[capturedDepth(stack) - n + 1]]

\* C19: getStackTrace(depthSkip) captures at most 50 frames and returns the
\* captured frames with capture index greater than depthSkip+1 in reverse
\* capture order, outermost first; for getStackTrace(1) the innermost kept
\* frame is the caller of the public method.
C19_ReturnsKeptFramesOutermostFirst ==
    sPc = "traced" =>
        /\ ~sOut.panic
        /\ sOut.trace.frames = KeptFrames(goStack(sIn1), sIn2)
        /\ Len(sOut.trace.frames) <= maxDepth
        /\ sIn2 = 1 => sOut.trace.frames[Len(sOut.trace.frames)] = CallSite

\* C20: for stacks of every depth, every index at which getStackTrace reads
\* the traces array lies in 0..49, so the stack capture completes without an
\* out-of-range access.
C20_TraceIndexesInRange ==
    sPc = "traced" =>
        /\ \A n \in DOMAIN sOut2 : sOut2[n] \in 0..(maxDepth - 1)
        /\ ~sOut.panic

----------------------------------------------------------------------------
(* Failures of the formatter and of the sink.                              *)

\* the reports on os.Stderr that stem from the call of goroutine p
ReportsOf(p) == {i \in DOMAIN stderr : stderr[i].p = p}
\* the parts of the buffer (kind, h) of goroutine p that are in the sink
PartsOf(p, kind, h) ==
    {i \in DOMAIN sink : sink[i].p = p /\ sink[i].kind = kind /\ sink[i].h = h}
FormatFailed(p, kind, h) ==
    \E i \in ReportsOf(p) : stderr[i].why = "format" /\ stderr[i].kind = kind /\ stderr[i].h = h
WriteFailed(p, kind, h) ==
    \E i \in ReportsOf(p) : stderr[i].why = "write" /\ stderr[i].kind = kind /\ stderr[i].h = h

\* C13: a failure of the formatter or of Write is reported on os.Stderr only:
\* the sink holds nothing but parts of formatted buffers, each part once and
\* none of a buffer whose formatting failed; a buffer is handed to Write once,
\* failed or not; and a Debug, Info, Warn or Error call during which a failure
\* was reported returns normally.
C13_FailuresOnlyOnStderr ==
    \A p \in procs :
        /\ \A i \in ReportsOf(p) : stderr[i].why \in {"format", "write"}
        /\ \A i \in DOMAIN sink :
              /\ sink[i].kind \in {"line", "hookerr"}
              /\ sink[i].i \in 1..BufLen
              /\ ~FormatFailed(sink[i].p, sink[i].kind, sink[i].h)
              /\ \A j \in DOMAIN sink : sink[j] = sink[i] => j = i
        /\ call[p].lineWrites <= 1
        /\ call[p].errWrites <= Cardinality(call[p].failed)
        /\ Cardinality({i \in ReportsOf(p) : stderr[i].why = "write"})
              <= call[p].lineWrites + call[p].errWrites
        /\ ReportsOf(p) # {} /\ call[p].after = "return" =>
              /\ call[p].out \in {"", "returned"}
              /\ recovered[p] = NoErr
              /\ pc[p] = "done" => call[p].out = "returned"

\* an Error call has returned; during it Write failed on the report of a
\* failed hook, part of it written, and the formatter failed on the line
C13_Witness ==
    /\ pc[1] = "done"
    /\ call[1].level = "error"
    /\ call[1].out = "returned"
    /\ WriteFailed(1, "hookerr", 1)
    /\ PartsOf(1, "hookerr", 1) # {}
    /\ FormatFailed(1, "line", 0)
    /\ PartsOf(1, "line", 0) = {}

----------------------------------------------------------------------------
(* The context scenario: loggers are derived with WithContext alone, from   *)
(* the root and from each other, with and without a context.                *)

CtxContexts == {NoContext, "ctx1", "ctx2"}
CtxResolverLists == {<<>>, <<"r3">>, <<"r1", "r2">>, <<"r2", "r1", "r3">>}

\* sIn1 and sIn2 keep the receiver and the argument of the last call
CtxInit ==
    /\ \E rs \in CtxResolverLists :
          LET n == newLogger(DefaultSettings, rs, <<>>, <<>>)
          IN /\ heap = n.h
             /\ loggers = <<n.l>>
             /\ made = <<[via |-> "root", from |-> 0, arg |-> VNil, argSnap |-> VNil,
                          snap |-> View(n.l, n.h)]>>
    /\ callerObjs = {}
    /\ nMut = 0
    /\ lastRet = 0
    /\ sPc = "off"
    /\ sIn1 = 0
    /\ sIn2 = NoContext
    /\ sOut = VNil
    /\ sOut2 = VNil
    /\ LogStart({}, NoMenu)

\* the call of WithContext on logger i returned r
CtxReturn(i, ctx, r) ==
    /\ loggers' = r.ls
    /\ lastRet' = r.ret
    /\ heap' = r.h
    /\ callerObjs' = callerObjs \cup r.objs
    /\ made' = IF r.ret <= Len(loggers) THEN made
               ELSE Append(made, Entry("context", i, VPrim(ctx), r.ls, r.ret, r.h))
    /\ sIn1' = i
    /\ sIn2' = ctx
    /\ UNCHANGED <<nMut, sPc, sOut, sOut2, logVars>>

\* l2 := loggers[i].WithContext(ctx)
CtxWithContext(i, ctx) ==
    /\ ctx = NoContext \/ CanDerive
    /\ CtxReturn(i, ctx, WithContext(loggers, i, ctx, heap))

CtxNext == \E i \in 1..Len(loggers), ctx \in CtxContexts : CtxWithContext(i, ctx)

SpecCtx == CtxInit /\ [][CtxNext]_vars

\* the sanitized form of the value t
SanitizedTree(t) == DeepOf(prepareForLog(Load(t, <<>>).v, Load(t, <<>>).h))
\* the keys the resolver r produces for ctx
ProducedBy(r, ctx) ==
    IF ResolverOut(r, ctx).k = "map" THEN DOMAIN ResolverOut(r, ctx).m ELSE {}
\* the resolvers of rs, by position, that produce key for ctx
Producers(rs, ctx, key) == {n \in 1..Len(rs) : key \in ProducedBy(rs[n], ctx)}
Last(S) == CHOOSE n \in S : \A x \in S : x <= n
\* the fold of merge over the resolvers rs, from the context fields prev: a key
\* that resolvers produce holds the value of the last of them, any other key
\* of prev what it held
FoldedFields(prev, rs, ctx) ==
    [k |-> "map",
     m |-> [key \in DOMAIN prev.m \cup UNION {ProducedBy(rs[n], ctx) : n \in 1..Len(rs)} |->
              IF Producers(rs, ctx, key) # {}
              THEN SanitizedTree(ResolverOut(rs[Last(Producers(rs, ctx, key))], ctx).m[key])
              ELSE prev.m[key]]]

\* C16: WithContext(nil) returns the receiver itself; WithContext(ctx) returns
\* a new logger whose context is ctx and whose contextFields are the fold of
\* merge over the resolvers in registration order, from the receiver's
\* contextFields: the last resolver that produces a key wins, and the keys no
\* resolver produces are retained.
C16_WithContextFoldsResolvers ==
    /\ sIn1 # 0 /\ sIn2 = NoContext => lastRet = sIn1
    /\ sIn1 # 0 /\ sIn2 # NoContext =>
          /\ lastRet = Len(loggers)
          /\ made[lastRet].via = "context"
          /\ made[lastRet].from = sIn1
          /\ made[lastRet].arg = VPrim(sIn2)
    /\ \A i \in 1..Len(loggers) :
          made[i].via = "context" =>
              /\ made[i].arg.s # NoContext
              /\ ViewOf(i).data.context = made[i].arg.s
              /\ ViewOf(i).data.contextFields =
                    FoldedFields(ViewOf(made[i].from).data.contextFields,
                                 loggers[made[i].from].ctxResolver, made[i].arg.s)

\* a logger made with ctx1 was given ctx2, with three resolvers of which two
\* produce the key a and one the key c for ctx1 only; then WithContext(nil)
\* was called on the result
C16_Witness ==
    /\ Len(loggers) = 3
    /\ loggers[1].ctxResolver = <<"r2", "r1", "r3">>
    /\ made[2].from = 1 /\ made[2].arg.s = "ctx1"
    /\ made[3].from = 2 /\ made[3].arg.s = "ctx2"
    /\ ViewOf(3).data.contextFields.m["a"] = VPrim("ctx2")
    /\ ViewOf(3).data.contextFields.m["c"] = VPrim("ctx1")
    /\ sIn1 = 3 /\ sIn2 = NoContext /\ lastRet = 3

----------------------------------------------------------------------------
(* The hooks of a log call.                                                *)

\* the fields given at the call site of the call c
CallSiteFields(c) ==
    IF c.level \in ErrorClass
    THEN "stacktrace" :> getStackTrace(1, goStack(c.depth)).trace
    ELSE EmptyFn
\* the hooks 1..n in the order of their registration
InOrder(n) == [i \in 1..n |-> i]
AllFired(c) == c.fired = InOrder(Len(HooksOf(c)))
\* what goroutine p has put into the sink and on os.Stderr
SinkOf(p) == {i \in DOMAIN sink : sink[i].p = p}

\* C17: in a log call that passed the level filter the hooks are fired once
\* each, in the order of their registration, with the metadata that has the
\* call-site fields merged onto the logger's retained fields, and the line is
\* written only after all of them; in a call that did not pass, no hook is
\* fired and nothing is written.
C17_HooksOnceInOrderBeforeTheLine ==
    \A p \in procs :
        /\ call[p].accepted =>
              /\ call[p].fired = InOrder(Len(call[p].fired))
              /\ Len(call[p].fired) <= Len(HooksOf(call[p]))
              /\ call[p].meta.fields.m = CallSiteFields(call[p]) @@ RetainedFields(call[p]).m
              /\ call[p].meta.channel = loggers[call[p].lg].data.channel
              /\ call[p].meta.contextFields = ViewOf(call[p].lg).data.contextFields
              /\ call[p].buf.kind = "line" \/ PartsOf(p, "line", 0) # {} => AllFired(call[p])
              /\ LogOver(p) => AllFired(call[p]) /\ call[p].lineWrites = 1
        /\ ~call[p].accepted =>
              /\ call[p].fired = <<>>
              /\ call[p].lineWrites = 0 /\ call[p].errWrites = 0
              /\ SinkOf(p) = {} /\ ReportsOf(p) = {}

\* a Warn call on a logger with retained fields is writing its line, after its
\* two hooks were fired, of which the first failed
C17_Witness ==
    \E p \in procs :
        /\ call[p].accepted /\ call[p].level = "warn"
        /\ pc[p] = "write" /\ call[p].buf.kind = "line" /\ call[p].widx = 1
        /\ call[p].lg = 2 /\ made[2].via = "fields"
        /\ Len(HooksOf(call[p])) = MaxHooks
        /\ call[p].fired = InOrder(MaxHooks)
        /\ call[p].failed = {1}
        /\ DOMAIN call[p].meta.fields.m = {"a", "b"}

----------------------------------------------------------------------------
(* The mutex of the sink, with a sink that fails: NumProcs goroutines call  *)
(* Info on the root at once, and Write and the formatter may fail.          *)

LiveCallers ==
    LogInit(AllProcs, [depths |-> {}, faults |-> TRUE, hookFaults |-> FALSE], {"info"}, {0})

LiveNext ==
    \/ \E p \in procs : Info(p, 1)
    \/ \E p \in procs, fmtFails \in BOOLEAN : logFormat(p, fmtFails)
    \/ \E p \in procs : Lock(p)
    \/ \E p \in procs : Write(p)
    \/ \E p \in procs : WriteError(p)
    \/ \E p \in procs : WriteReturn(p)
    \/ \E p \in procs : Return(p)

\* a goroutine inside a call goes on running, and Write ends, with an error
\* or without; sync.Mutex hands the mutex to a goroutine that keeps waiting
LiveFairness ==
    \A p \in AllProcs :
        /\ WF_vars(\E fmtFails \in BOOLEAN : logFormat(p, fmtFails))
        /\ SF_vars(Lock(p))
        /\ WF_vars(Write(p) \/ WriteError(p) \/ WriteReturn(p))
        /\ WF_vars(Return(p))

SpecLive == LiveCallers /\ [][LiveNext]_vars /\ LiveFairness

\* goroutine p is between Lock and Unlock of the mutex k
InWrite(p, k) == pc[p] = "write" /\ LockOf(call[p]) = k
MutexOnlyInWrite ==
    \A k \in LockIds :
        /\ lockHolder[k] # 0 => InWrite(lockHolder[k], k)
        /\ \A p \in procs : InWrite(p, k) => lockHolder[k] = p

\* C18: the mutex is held only inside write and is free whenever no write is
\* in progress, whether Write fails or not; with any number of callers at once
\* every call that was made returns.
C18_MutexFreedAndCallsReturn ==
    /\ []MutexOnlyInWrite
    /\ \A p \in AllProcs : (pc[p] # "idle") ~> (pc[p] = "done" /\ call[p].out = "returned")

\* every goroutine has returned from its call, Write has failed for the first
\* two of them, and the mutex is free
C18_Witness ==
    /\ \A p \in AllProcs : pc[p] = "done" /\ call[p].out = "returned"
    /\ \A p \in 1..2 : WriteFailed(p, "line", 0)
    /\ \A k \in LockIds : lockHolder[k] = 0

----------------------------------------------------------------------------
(* The sequence scenario: one goroutine makes Debug, Info, Warn and Error  *)
(* calls one after the other, on the root and on loggers derived between   *)
(* the calls.                                                              *)

\* sIn1 counts the calls that are over; sOut keeps the first accepted Error
\* call among them, with the number of loggers there were
SeqCaller ==
    /\ \E lv \in {"debug", "warn"} :
          LET r == newLogger([DefaultSettings EXCEPT !.level = lv], <<"r1", "r2">>,
                             HookList(1), <<>>)
          IN /\ heap = r.h
             /\ loggers = <<r.l>>
             /\ made = <<[via |-> "root", from |-> 0, arg |-> VNil, argSnap |-> VNil,
                          snap |-> View(r.l, r.h)]>>
    /\ callerObjs = {}
    /\ nMut = 0
    /\ lastRet = 0
    /\ sPc = "off"
    /\ sIn1 = 0
    /\ sIn2 = VNil
    /\ sOut = <<>>
    /\ sOut2 = VNil
    /\ LogStart({1}, [depths |-> StackDepths, faults |-> FALSE, hookFaults |-> FALSE])

\* the goroutine is between two calls
Between == \A p \in procs : pc[p] = "idle"

\* the call of goroutine p is over and it goes on to its next one
NextCall(p) ==
    /\ exited = 0
    /\ pc[p] = "done"
    /\ sIn1 + 1 < MaxCalls
    /\ sIn1' = sIn1 + 1
    /\ sOut' = IF sOut = <<>> /\ call[p].accepted /\ call[p].level = "error"
               THEN <<[lg |-> call[p].lg, n |-> Len(loggers)]>>
               ELSE sOut
    /\ Goes(p, "idle", NoCall)
    /\ UNCHANGED <<heap, chainVars, sPc, sIn2, sOut2, procs, menu, lockHolder, sink,
                   stderr, spanErrs, exited, recovered>>

SeqNext ==
    \/ Between /\ \E i \in 1..Len(loggers), c \in Channels : ChainWithChannel(i, c)
    \/ Between /\ \E i \in 1..Len(loggers), t \in LogFieldInputs : ChainWithFields(i, t)
    \/ \E p \in procs, l \in 1..Len(loggers) : Debug(p, l)
    \/ \E p \in procs, l \in 1..Len(loggers) : Info(p, l)
    \/ \E p \in procs, l \in 1..Len(loggers) : Warn(p, l)
    \/ \E p \in procs, l \in 1..Len(loggers), e \in Errs, d \in menu.depths, g \in BOOLEAN :
          Error(p, l, e, d, g)
    \/ \E p \in procs, fails \in BOOLEAN : FireHook(p, fails)
    \/ \E p \in procs, fmtFails \in BOOLEAN : logFormat(p, fmtFails)
    \/ \E p \in procs : Lock(p)
    \/ \E p \in procs : Write(p)
    \/ \E p \in procs : WriteReturn(p)
    \/ \E p \in procs : Return(p)
    \/ \E p \in procs : NextCall(p)

SpecSeq == SeqCaller /\ [][SeqNext]_vars

\* C21: whatever Debug, Info, Warn and Error calls were made, every logger's
\* channel, context, contextFields, fields and tags are what they were when
\* it was made, no logger has a "stacktrace" among its fields, and the fields
\* of a Debug, Info or Warn call are the retained fields of its logger.
C21_LogCallsLeaveTheLoggerUnchanged ==
    /\ \A i \in 1..Len(loggers) :
          /\ ViewOf(i) = made[i].snap
          /\ "stacktrace" \notin DOMAIN ViewOf(i).data.fields.m
    /\ \A p \in procs :
          call[p].accepted /\ call[p].level \notin ErrorClass =>
              /\ call[p].meta.fields = made[call[p].lg].snap.data.fields
              /\ call[p].meta.contextFields = made[call[p].lg].snap.data.contextFields
              /\ call[p].meta.tags = made[call[p].lg].snap.data.tags
              /\ "stacktrace" \notin DOMAIN call[p].meta.fields.m

\* an Error call was accepted on the root; then a logger was derived from the
\* root with WithFields, and an Info call on it was accepted and has returned
C21_Witness ==
    /\ Len(sOut) = 1
    /\ sOut[1].lg = 1 /\ sOut[1].n = 1
    /\ Len(loggers) >= 2 /\ made[2].via = "fields" /\ made[2].from = 1
    /\ pc[1] = "done" /\ call[1].accepted
    /\ call[1].level = "info" /\ call[1].lg = 2
    /\ DOMAIN call[1].meta.fields.m = {"a", "b"}

----------------------------------------------------------------------------
(* The early level check of Debug: goroutine 1 calls Debug or Debugf, and   *)
(* goroutine 2 makes the same call without the early check, on the same     *)
(* logger, whatever its level.                                              *)

\* Debug without its early check: l.log(Debug, fmt.Sprint(args...), nil, Fields{})
DebugStraight(p, l) == Calls(p) /\ logVia(p, Begin(l, "debug", "return", NoErr, 0))

DebugCallers ==
    LogInit({1, 2}, [depths |-> {}, faults |-> FALSE, hookFaults |-> TRUE],
            LevelNames, {1})

DebugNext ==
    \/ \E l \in 1..Len(loggers) : Debug(1, l)
    \/ \E l \in 1..Len(loggers) : Debugf(1, l)
    \/ \E l \in 1..Len(loggers) : DebugStraight(2, l)
    \/ \E p \in procs, fails \in BOOLEAN : FireHook(p, fails)
    \/ \E p \in procs, fmtFails \in BOOLEAN : err(p, fmtFails)
    \/ \E p \in procs, fmtFails \in BOOLEAN : logFormat(p, fmtFails)
    \/ \E p \in procs : Lock(p)
    \/ \E p \in procs : Write(p)
    \/ \E p \in procs : WriteReturn(p)
    \/ \E p \in procs : Return(p)

SpecDebug == DebugCallers /\ [][DebugNext]_vars

\* what goroutine p has written to the sink, in the order of its writes
WritesOf(p) ==
    LET own == SelectSeq(sink, LAMBDA c : c.p = p)
    IN [n \in 1..Len(own) |-> [kind |-> own[n].kind, h |-> own[n].h, i |-> own[n].i]]

\* C22: for every configured level, a Debug or Debugf call with the early
\* check and the same call going straight to log fire the same hooks and
\* write the same to the sink (the hooks failing alike in both).
C22_EarlyCheckIsAnOptimization ==
    /\ pc[1] # "idle" /\ pc[2] # "idle" =>
          call[1].accepted = call[2].accepted
    /\ CallOver(1) /\ CallOver(2)
          /\ call[1].failed = call[2].failed =>
              /\ call[1].fired = call[2].fired
              /\ WritesOf(1) = WritesOf(2)
              /\ call[1].lineWrites = call[2].lineWrites
              /\ call[1].errWrites = call[2].errWrites
              /\ call[1].out = call[2].out

\* both calls are over on a logger whose level is debug: in both the hook was
\* fired and failed, and its report and the line were written whole
C22_Witness ==
    /\ loggers[1].level = levelPriority("debug")
    /\ CallOver(1) /\ CallOver(2)
    /\ call[1].accepted /\ call[2].accepted
    /\ call[1].failed = {1} /\ call[2].failed = {1}
    /\ Len(WritesOf(1)) = 2 * BufLen
    /\ WritesOf(2) = WritesOf(1)

----------------------------------------------------------------------------
(* The order of WithChannel and WithFields: from a logger L of a family,    *)
(* a channel c and a map f, L.WithChannel(c).WithFields(f) and              *)
(* L.WithFields(f).WithChannel(c) are made.                                 *)

CommuteChannels == Channels \cup {"billing"}

\* sPc tells whether the two loggers were made; then sIn1 is L, sIn2 the map f
\* as it was, sOut the index of the first of them and sOut2 of the second
CommuteInit ==
    /\ \E rs \in ResolverLists :
          LET n == newLogger(DefaultSettings, rs, <<"h1">>, <<>>)
          IN /\ heap = n.h
             /\ loggers = <<n.l>>
             /\ made = <<[via |-> "root", from |-> 0, arg |-> VNil, argSnap |-> VNil,
                          snap |-> View(n.l, n.h)]>>
    /\ callerObjs = {}
    /\ nMut = 0
    /\ lastRet = 0
    /\ sPc = "family"
    /\ sIn1 = 0
    /\ sIn2 = VNil
    /\ sOut = 0
    /\ sOut2 = 0
    /\ LogStart({}, NoMenu)

\* the four loggers made from L = ls[i] with the channel c and the loaded map f
ChannelThenFields(ls, i, c, f) ==
    WithFields(WithChannel(ls, i, c).ls, WithChannel(ls, i, c).ret, f.v, f.h)
FieldsThenChannel(ls, i, c, f, h) ==
    [ls |-> WithChannel(WithFields(ls, i, f.v, h).ls, WithFields(ls, i, f.v, h).ret, c).ls,
     ret |-> WithChannel(WithFields(ls, i, f.v, h).ls, WithFields(ls, i, f.v, h).ret, c).ret,
     h |-> WithFields(ls, i, f.v, h).h]

CommuteMade(i, f, a, b) ==
    /\ loggers' = b.ls
    /\ heap' = b.h
    /\ sPc' = "made"
    /\ sIn1' = i
    /\ sIn2' = Deep(f.v, f.h)
    /\ sOut' = a.ret
    /\ sOut2' = b.ret
    /\ UNCHANGED <<made, callerObjs, nMut, lastRet, logVars>>

\* a := L.WithChannel(c).WithFields(f); b := L.WithFields(f).WithChannel(c)
CommuteBothWith(i, c, f, a) ==
    CommuteMade(i, f, a, FieldsThenChannel(a.ls, i, c, f, a.h))
CommuteBoth(i, c, t) ==
    /\ sPc = "family"
    /\ CommuteBothWith(i, c, Load(t, heap), ChannelThenFields(loggers, i, c, Load(t, heap)))

CommuteNext ==
    \/ sPc = "family" /\ \E i \in 1..Len(loggers), c \in Channels : ChainWithChannel(i, c)
    \/ sPc = "family" /\ \E i \in 1..Len(loggers), ctx \in Contexts \ {NoContext} :
          ChainWithContext(i, ctx)
    \/ sPc = "family" /\ \E i \in 1..Len(loggers), t \in FieldInputs : ChainWithFields(i, t)
    \/ \E i \in 1..Len(loggers), c \in CommuteChannels, t \in FieldInputs : CommuteBoth(i, c, t)

SpecCommute == CommuteInit /\ [][CommuteNext]_vars

\* the keys of the map f, none for a nil map
TreeKeys(f) == IF f.k = "map" THEN DOMAIN f.m ELSE {}
\* merge(fields, f): the keys of both, a key of f with the sanitized value of f
MergedFields(fields, f) ==
    [k |-> "map",
     m |-> [key \in DOMAIN fields.m \cup TreeKeys(f) |->
              IF key \in TreeKeys(f) THEN SanitizedTree(f.m[key]) ELSE fields.m[key]]]

\* C23: L.WithChannel(c).WithFields(f) and L.WithFields(f).WithChannel(c) are
\* the same but for their identity: both have the channel c, the fields
\* merge(L.fields, f), and the contextFields, tags, level, format, hooks, sink
\* and lock of L.
C23_ChannelAndFieldsCommute ==
    sPc = "made" =>
        /\ ViewOf(sOut) = ViewOf(sOut2)
        /\ ViewOf(sOut).data.channel \in CommuteChannels
        /\ ViewOf(sOut).data.channel = loggers[sOut2].data.channel
        /\ ViewOf(sOut).data.fields = MergedFields(ViewOf(sIn1).data.fields, sIn2)
        /\ ViewOf(sOut) = [ViewOf(sIn1) EXCEPT !.data.channel = ViewOf(sOut).data.channel,
                                               !.data.fields = ViewOf(sOut).data.fields]

\* L has fields and a channel of its own, f has a key of L's fields and a
\* nested map, and c is another channel
C23_Witness ==
    /\ sPc = "made"
    /\ ViewOf(sIn1).data.channel = "orders"
    /\ DOMAIN ViewOf(sIn1).data.fields.m = {"a", "b"}
    /\ sIn2.k = "map" /\ DOMAIN sIn2.m = {"a"} /\ sIn2.m["a"].k = "map"
    /\ ViewOf(sOut).data.channel = "billing"
    /\ ViewOf(sOut2).data.fields.m["b"] = ViewOf(sIn1).data.fields.m["b"]

----------------------------------------------------------------------------
(* The time-to-live filter of the ddb package.  An item is a map from       *)
(* attribute names to attribute values; a condition is nil or a sequence of *)
(* conditions joined by And.                                               *)

AttrNames == {"ttl", "expires"}
\* item[name] for a name the item does not have
NoAttr == [k |-> "missing"]
\* the attribute values: none, NULL, a number that is an integer, a number that
\* is none, and a string
AttrValues ==
    {NoAttr, [k |-> "NULL"], [k |-> "N", frac |-> TRUE], [k |-> "S"]}
        \cup {[k |-> "N", frac |-> FALSE, n |-> n] : n \in (0 - 1)..(MaxNow + 1)}
Items == [AttrNames -> AttrValues]

NilCondition == "nil"
\* expression.GreaterThan(expression.Name(name), expression.Value(value))
GreaterThan(name, value) == [op |-> "GreaterThan", name |-> name, value |-> value]
\* a condition the caller has set on the builder
CallerCondition == <<[op |-> "AttributeExists", name |-> "expires", value |-> 0]>>

\* dynamodbattribute.UnmarshalMap({"ttl": av}, &ttlStruct{}): a missing or NULL
\* value leaves Ttl zero, a number that is no integer and a string are errors
UnmarshalTtl(av) ==
    CASE av.k \in {"missing", "NULL"} -> [err |-> FALSE, Ttl |-> 0]
      [] av.k = "N" /\ ~av.frac -> [err |-> FALSE, Ttl |-> av.n]
      [] OTHER -> [err |-> TRUE, Ttl |-> 0]

\* the builder b is [enabled, field, disableTtlFilter, filterCondition, now]
TtlFilterOff(b) == ~b.enabled \/ b.disableTtlFilter

buildFilterCondition(b) ==
    IF TtlFilterOff(b) THEN b.filterCondition
    ELSE IF b.filterCondition = NilCondition THEN <<GreaterThan(b.field, b.now)>>
    ELSE Append(b.filterCondition, GreaterThan(b.field, b.now))

\* mutant: an item whose ttl is the current time is accepted
PerformFilterConditionAtNow(b, item) ==
    IF TtlFilterOff(b) THEN [ok |-> TRUE, err |-> FALSE]
    ELSE IF UnmarshalTtl(item[b.field]).err THEN [ok |-> FALSE, err |-> TRUE]
    ELSE [ok |-> UnmarshalTtl(item[b.field]).Ttl >= b.now, err |-> FALSE]

PerformFilterCondition(b, item) ==
    IF TtlFilterOff(b) THEN [ok |-> TRUE, err |-> FALSE]
    ELSE IF UnmarshalTtl(item[b.field]).err THEN [ok |-> FALSE, err |-> TRUE]
    ELSE [ok |-> UnmarshalTtl(item[b.field]).Ttl > b.now, err |-> FALSE]

\* the filter scenario: a builder and an item; sIn1 is the builder, sIn2 the
\* item, sOut what PerformFilterCondition returns and sOut2 the condition built
TtlInit ==
    /\ heap = <<>>
    /\ loggers = <<>>
    /\ made = <<>>
    /\ callerObjs = {}
    /\ nMut = 0
    /\ lastRet = 0
    /\ LogStart({}, NoMenu)
    /\ sPc = "filter"
    /\ sIn1 \in [enabled : BOOLEAN, field : AttrNames, disableTtlFilter : BOOLEAN,
                 filterCondition : {NilCondition, CallerCondition}, now : 0..MaxNow]
    /\ sIn2 \in Items
    /\ sOut = VNil
    /\ sOut2 = VNil

TtlFilter ==
    /\ sPc = "filter"
    /\ sOut' = PerformFilterCondition(sIn1, sIn2)
    /\ sOut2' = buildFilterCondition(sIn1)
    /\ sPc' = "filtered"
    /\ UNCHANGED <<heap, chainVars, sIn1, sIn2, logVars>>

TtlNext == TtlFilter

SpecTtl == TtlInit /\ [][TtlNext]_vars

\* the item has under name a number greater than value: what the database
\* takes GreaterThan(name, value) to mean
Holds(c, item) ==
    /\ c.op = "GreaterThan"
    /\ item[c.name].k = "N" /\ ~item[c.name].frac
    /\ item[c.name].n > c.value

====
